---- MODULE Spec2Model ----
(***************************************************************************)
(* omnirec-picker: the selection retrieval / consent / persistence         *)
(* workflow (src-picker/main.cpp), the length-prefixed IPC client          *)
(* (src-picker/ipc_client.cpp) and the output formatting, window table and *)
(* fallback launcher (src-picker/picker_logic.cpp).                        *)
(*                                                                         *)
(* Text that the program parses or prints (source ids, the window list,    *)
(* stdout) is a sequence of one-character strings; JSON strings that are   *)
(* only compared or logged (type tags, messages) are TLA+ strings.         *)
(***************************************************************************)
EXTENDS Integers, Sequences, FiniteSets, TLC

\* ------------------------------------------------------------------------
\* Bounds of the model
\* ------------------------------------------------------------------------

\* Largest number of separate partial arrivals the service may split one
\* response frame into before the rest arrives in one piece.
MaxArrivals == 3

\* Largest size of one partial arrival, in bytes.
MaxChunk == 2

\* ------------------------------------------------------------------------
\* Program constants
\* ------------------------------------------------------------------------

\* ipc_client.cpp:97  "if (len > 65536)"
MaxFrameLen == 65536

\* ipc_client.cpp:74  "while (bytesRead < 4)"
PrefixLen == 4

\* dialog.cpp:231  "QByteArray bytes(32, 0)"
TokenBytes == 32

\* waitForReadyRead(5000)
ReadTimeoutMs == 5000

\* ------------------------------------------------------------------------
\* Unsigned 32- and 64-bit values
\*
\* TLC's integers are 32-bit signed, so a quint32 or uint64_t value is kept
\* as its decimal digits, most significant first, without leading zeros
\* (<<0>> is zero, <<6,5,5,3,6>> is 65536).
\* ------------------------------------------------------------------------

Min(a, b) == IF a <= b THEN a ELSE b

RECURSIVE BigNorm(_)
\* strip leading zeros
BigNorm(ds) ==
    IF Len(ds) > 1 /\ Head(ds) = 0
    THEN CHOOSE r \in {BigNorm(rest) : rest \in {Tail(ds)}} : TRUE
    ELSE ds

RECURSIVE BigOf(_)
\* the digits of a natural number that TLC can hold
BigOf(n) == IF n < 10 THEN <<n>> ELSE BigOf(n \div 10) \o <<n % 10>>

RECURSIVE BigMulAddRaw(_, _, _)
\* digits of ds * m + carry, possibly with a leading zero
BigMulAddRaw(ds, m, carry) ==
    IF ds = <<>> THEN BigOf(carry)
    ELSE CHOOSE r \in {BigMulAddRaw(front, m, v \div 10) \o <<v % 10>> :
                           front \in {SubSeq(ds, 1, Len(ds) - 1)},
                           v \in {ds[Len(ds)] * m + carry}} : TRUE

\* ds * m + a, for small m and a
BigMulAdd(ds, m, a) == CHOOSE r \in {BigNorm(raw) : raw \in {BigMulAddRaw(ds, m, a)}} : TRUE

RECURSIVE BigLexGreater(_, _)
\* a > b for digit sequences of equal length
BigLexGreater(a, b) ==
    IF a = <<>> THEN FALSE
    ELSE IF Head(a) # Head(b) THEN Head(a) > Head(b)
    ELSE BigLexGreater(Tail(a), Tail(b))

\* a > b
BigGreater(a, b) ==
    \/ Len(a) > Len(b)
    \/ Len(a) = Len(b) /\ BigLexGreater(a, b)

RECURSIVE BigToInt(_)
\* the TLC integer of a value known to be small
BigToInt(ds) ==
    IF ds = <<>> THEN 0
    ELSE CHOOSE r \in {BigToInt(front) * 10 + ds[Len(ds)] :
                           front \in {SubSeq(ds, 1, Len(ds) - 1)}} : TRUE

\* UINT64_MAX, 18446744073709551615
MaxU64 == <<1,8,4,4,6,7,4,4,0,7,3,7,0,9,5,5,1,6,1,5>>

\* ------------------------------------------------------------------------
\* Text helpers
\* ------------------------------------------------------------------------

RECURSIVE StrOf(_)
\* the TLA+ string spelled by a sequence of one-character strings
StrOf(cs) == IF cs = <<>> THEN "" ELSE Head(cs) \o StrOf(Tail(cs))

DecDigits == <<"0", "1", "2", "3", "4", "5", "6", "7", "8", "9">>

HexDigitsLower == DecDigits \o <<"a", "b", "c", "d", "e", "f">>

HexDigitsUpper == DecDigits \o <<"A", "B", "C", "D", "E", "F">>

\* value of the character c as a digit of the base, or -1
DigitValue(c, base) ==
    LET lo == {i \in 1..base : HexDigitsLower[i] = c}
        up == {i \in 1..base : HexDigitsUpper[i] = c}
    IN  IF lo # {} THEN (CHOOSE i \in lo : TRUE) - 1
        ELSE IF up # {} THEN (CHOOSE i \in up : TRUE) - 1
        ELSE -1

RECURSIVE DigitsValue(_, _, _)
\* value of an all-digit text, read left to right onto the accumulator acc
DigitsValue(cs, base, acc) ==
    IF cs = <<>> THEN acc
    ELSE CHOOSE r \in {DigitsValue(rest, base, next) :
                           rest \in {Tail(cs)},
                           next \in {BigMulAdd(acc, base, DigitValue(Head(cs), base))}} : TRUE

StartsWith(cs, pre) ==
    /\ Len(cs) >= Len(pre)
    /\ SubSeq(cs, 1, Len(pre)) = pre

\* QString::mid(pos): the text from 0-based position pos to the end
Mid(cs, pos) == SubSeq(cs, pos + 1, Len(cs))

\* QString::left(n): the first n characters
Left(cs, n) == SubSeq(cs, 1, n)

\* QString::toULongLong(nullptr, base): the number the text spells, zero when
\* the text is not a number of that base or does not fit 64 bits.  With
\* base 16 an optional "0x" prefix is accepted, as strtoull does.
toULongLong(cs, base) ==
    LET body == IF base = 16 /\ (StartsWith(cs, <<"0", "x">>) \/ StartsWith(cs, <<"0", "X">>))
                THEN Mid(cs, 2) ELSE cs
        ok   == /\ body # <<>>
                /\ \A i \in 1..Len(body) : DigitValue(body[i], base) >= 0
    IN  IF ok /\ ~BigGreater(DigitsValue(body, base, <<0>>), MaxU64)
        THEN DigitsValue(body, base, <<0>>) ELSE <<0>>

\* decimal rendering of an unsigned value (QString::arg of an unsigned)
BigToChars(ds) == [i \in 1..Len(ds) |-> DecDigits[ds[i] + 1]]

\* decimal rendering of a signed integer (QString::arg of an int)
IntToChars(n) == IF n < 0 THEN <<"-">> \o BigToChars(BigOf(-n)) ELSE BigToChars(BigOf(n))

\* ------------------------------------------------------------------------
\* picker_logic.cpp: window table and output formatting
\* ------------------------------------------------------------------------

\* the four sentinel markers of XDPH_WINDOW_SHARING_LIST
MarkHC == <<"[", "H", "C", ">", "]">>

MarkHT == <<"[", "H", "T", ">", "]">>

MarkHE == <<"[", "H", "E", ">", "]">>

MarkHA == <<"[", "H", "A", ">", "]">>

\* QString::indexOf(pat): 0-based position of the first occurrence, or -1
IndexOf(cs, pat) ==
    LET hits == {i \in 1..(Len(cs) - Len(pat) + 1) : SubSeq(cs, i, i + Len(pat) - 1) = pat}
    IN  IF hits = {} THEN -1
        ELSE (CHOOSE i \in hits : \A j \in hits : i <= j) - 1

RECURSIVE parseWindowListLoop(_, _)
\* the while loop of parseWindowList: remaining text, entries so far
parseWindowListLoop(remaining, windows) ==
    IF remaining = <<>> THEN windows
    ELSE
    LET idEnd == IndexOf(remaining, MarkHC) IN
    IF idEnd = -1 THEN windows
    ELSE
    LET idStr == Left(remaining, idEnd)
        rem1  == Mid(remaining, idEnd + 5)
        classEnd == IndexOf(rem1, MarkHT)
    IN
    IF classEnd = -1 THEN windows
    ELSE
    LET windowClass == Left(rem1, classEnd)
        rem2  == Mid(rem1, classEnd + 5)
        titleEnd == IndexOf(rem2, MarkHE)
    IN
    IF titleEnd = -1 THEN windows
    ELSE
    LET title == Left(rem2, titleEnd)
        rem3  == Mid(rem2, titleEnd + 5)
        addrEnd == IndexOf(rem3, MarkHA)
    IN
    IF addrEnd = -1 THEN windows
    ELSE
    LET addrStr == Left(rem3, addrEnd)
        rem4  == Mid(rem3, addrEnd + 5)
        entry == [handleId    |-> toULongLong(idStr, 10),
                  windowClass |-> windowClass,
                  title       |-> title,
                  windowAddr  |-> toULongLong(addrStr, 10)]
    IN  parseWindowListLoop(rem4, Append(windows, entry))

\* parseWindowList giving up on the whole table when text is left over after
\* the last complete record
parseWindowListStrict(envValue) ==
    IF envValue = <<>> \/ (Len(envValue) >= 5
                           /\ SubSeq(envValue, Len(envValue) - 4, Len(envValue)) = MarkHA)
    THEN parseWindowListLoop(envValue, <<>>)
    ELSE <<>>

parseWindowList(envValue) == parseWindowListLoop(envValue, <<>>)

\* findWindowHandle returning the last entry with the address
findWindowHandleLast(windows, hyprlandAddr) ==
    LET hits == {i \in 1..Len(windows) : windows[i].windowAddr = hyprlandAddr}
    IN  IF hits = {} THEN <<>>
        ELSE <<windows[CHOOSE i \in hits : \A j \in hits : i >= j].handleId>>

\* std::optional<uint64_t>: <<>> is nullopt, <<h>> holds h.  The first entry
\* in table order whose windowAddr equals the address wins.
findWindowHandle(windows, hyprlandAddr) ==
    LET hits == {i \in 1..Len(windows) : windows[i].windowAddr = hyprlandAddr}
    IN  IF hits = {} THEN <<>>
        ELSE <<windows[CHOOSE i \in hits : \A j \in hits : i <= j].handleId>>

SelectionTag == <<"[", "S", "E", "L", "E", "C", "T", "I", "O", "N", "]", "/">>

formatMonitorOutput(sourceId) ==
    SelectionTag \o <<"s", "c", "r", "e", "e", "n", ":">> \o sourceId

\* formatWindowOutput printing the text of sourceId when no entry matches
formatWindowOutputRaw(sourceId, windowList) ==
    LET hyprlandAddr == IF StartsWith(sourceId, <<"0", "x">>)
                        THEN toULongLong(Mid(sourceId, 2), 16)
                        ELSE toULongLong(sourceId, 10)
        windows == parseWindowList(windowList)
        handle  == findWindowHandle(windows, hyprlandAddr)
    IN  SelectionTag \o <<"w", "i", "n", "d", "o", "w", ":">>
        \o (IF handle # <<>> THEN BigToChars(handle[1]) ELSE sourceId)

\* windowList is the value of XDPH_WINDOW_SHARING_LIST read by the call
formatWindowOutput(sourceId, windowList) ==
    LET hyprlandAddr == IF StartsWith(sourceId, <<"0", "x">>)
                        THEN toULongLong(Mid(sourceId, 2), 16)
                        ELSE toULongLong(sourceId, 10)
        windows == parseWindowList(windowList)
        handle  == findWindowHandle(windows, hyprlandAddr)
    IN  SelectionTag \o <<"w", "i", "n", "d", "o", "w", ":">>
        \o (IF handle # <<>> THEN BigToChars(handle[1]) ELSE BigToChars(hyprlandAddr))

\* formatRegionOutput with height and width exchanged in the line
formatRegionOutputSwapped(sourceId, x, y, width, height) ==
    SelectionTag \o <<"r", "e", "g", "i", "o", "n", ":">> \o sourceId \o <<"@">>
    \o IntToChars(x) \o <<",">> \o IntToChars(y) \o <<",">>
    \o BigToChars(height) \o <<",">> \o BigToChars(width)

formatRegionOutput(sourceId, x, y, width, height) ==
    SelectionTag \o <<"r", "e", "g", "i", "o", "n", ":">> \o sourceId \o <<"@">>
    \o IntToChars(x) \o <<",">> \o IntToChars(y) \o <<",">>
    \o BigToChars(width) \o <<",">> \o BigToChars(height)

\* ------------------------------------------------------------------------
\* dialog.cpp: approval token
\* ------------------------------------------------------------------------

\* toHex with uppercase digits
toHexUpper(bytes) ==
    [i \in 1..(2 * Len(bytes)) |->
        LET b == bytes[(i + 1) \div 2]
        IN  IF i % 2 = 1 THEN HexDigitsUpper[(b \div 16) + 1]
                         ELSE HexDigitsUpper[(b % 16) + 1]]

\* QByteArray::toHex: two lowercase hexadecimal characters per byte
toHex(bytes) ==
    [i \in 1..(2 * Len(bytes)) |->
        LET b == bytes[(i + 1) \div 2]
        IN  IF i % 2 = 1 THEN HexDigitsLower[(b \div 16) + 1]
                         ELSE HexDigitsLower[(b % 16) + 1]]

\* the byte values rng->bounded(256) may deliver for the 32 bytes of a token
RngDraws ==
    { [i \in 1..TokenBytes |-> 0],
      [i \in 1..TokenBytes |-> (i * 37 + 171) % 256] }

\* the tokens generateApprovalToken() can return
generateApprovalToken == {toHex(bytes) : bytes \in RngDraws}

\* ------------------------------------------------------------------------
\* ipc_client.cpp: responses
\*
\* A response body is kept as the JSON document it spells: valid = FALSE
\* for text that is not JSON, else obj is the object's fields (a record, or
\* <<>> for an object without fields or a document that is not an object).
\* ------------------------------------------------------------------------

\* JHas blind to the geometry field
JHasNoGeometry(obj, key) == key # "geometry" /\ key \in DOMAIN obj

JHas(obj, key) == key \in DOMAIN obj

\* QJsonValue::toString(): "" for an absent field
JString(obj, key) == IF JHas(obj, key) THEN obj[key] ELSE ""

\* QJsonValue::toString() of source_id, kept as characters
JChars(obj, key) == IF JHas(obj, key) THEN obj[key] ELSE <<>>

\* JBool defaulting an absent field to true
JBoolMissingTrue(obj, key) == IF JHas(obj, key) THEN obj[key] ELSE TRUE

\* QJsonValue::toBool(false)
JBool(obj, key) == IF JHas(obj, key) THEN obj[key] ELSE FALSE

\* QJsonValue::toInt(): 0 for an absent field
JInt(obj, key) == IF JHas(obj, key) THEN obj[key] ELSE 0

\* static_cast<unsigned int>(int), for n >= -65536
ToUnsigned(n) ==
    IF n >= 0 THEN BigOf(n) ELSE BigMulAdd(BigOf(65535), 65536, 65536 + n)

\* a default-constructed IpcResponse; type is set on every path that
\* returns one
NewResponse ==
    [type |-> "Unset", sourceType |-> "", sourceId |-> <<>>, geometry |-> <<>>,
     hasApprovalToken |-> FALSE, errorMessage |-> ""]

\* parseResponse(data, errorOut): the response, and the value *errorOut has
\* afterwards (errorIn where the function leaves it alone)
parseResponse(doc, errorIn) ==
    IF ~doc.valid
    THEN [response |-> [NewResponse EXCEPT !.type = "Error",
                            !.errorMessage = "Failed to parse response: " \o doc.detail],
          error    |-> "Failed to parse response: " \o doc.detail]
    ELSE
    LET obj  == doc.obj
        type == JString(obj, "type")
    IN
    IF type = "selection"
    THEN [response |-> [NewResponse EXCEPT
                            !.type = "Selection",
                            !.sourceType = JString(obj, "source_type"),
                            !.sourceId = JChars(obj, "source_id"),
                            !.hasApprovalToken = JBool(obj, "has_approval_token"),
                            !.geometry =
                                IF JHas(obj, "geometry")
                                THEN LET geomObj == obj["geometry"]
                                     IN  <<[x      |-> JInt(geomObj, "x"),
                                            y      |-> JInt(geomObj, "y"),
                                            width  |-> ToUnsigned(JInt(geomObj, "width")),
                                            height |-> ToUnsigned(JInt(geomObj, "height"))]>>
                                ELSE <<>>],
          error    |-> errorIn]
    ELSE IF type = "no_selection"
    THEN [response |-> [NewResponse EXCEPT !.type = "NoSelection"], error |-> errorIn]
    ELSE IF type = "error"
    THEN [response |-> [NewResponse EXCEPT !.type = "Error",
                            !.errorMessage = JString(obj, "message")],
          error    |-> JString(obj, "message")]
    ELSE IF type = "token_valid"
    THEN [response |-> [NewResponse EXCEPT !.type = "TokenValid"], error |-> errorIn]
    ELSE IF type = "token_invalid"
    THEN [response |-> [NewResponse EXCEPT !.type = "TokenInvalid"], error |-> errorIn]
    ELSE IF type = "token_stored" \/ type = "ok"
    THEN [response |-> [NewResponse EXCEPT !.type = "TokenStored"], error |-> errorIn]
    ELSE [response |-> [NewResponse EXCEPT !.type = "Error",
                            !.errorMessage = "Unknown response type: " \o type],
          error    |-> "Unknown response type: " \o type]

\* ------------------------------------------------------------------------
\* Inputs: what the service, the environment and the user may supply
\* ------------------------------------------------------------------------

SourceTypes == {"monitor", "window", "region", "screen"}

SourceIds ==
    { <<"D", "P", "-", "1">>,
      <<"0", "x", "1", "2", "3", "4">>,
      <<"4", "6", "6", "0">> }

\* geometry objects of a selection body
GeometryObjects ==
    { [x |-> 10, y |-> 20, width |-> 800, height |-> 600],
      [x |-> -1920, y |-> 0, width |-> 1920, height |-> 1080] }

\* optional fields of a selection body: each is present or absent
SelectionExtras ==
    {<<>>}
    \cup {("has_approval_token" :> b) : b \in BOOLEAN}
    \cup {("geometry" :> g) : g \in GeometryObjects}
    \cup {("has_approval_token" :> b) @@ ("geometry" :> g) :
              b \in BOOLEAN, g \in GeometryObjects}

SelectionDocs ==
    { [valid |-> TRUE,
       obj   |-> ("type" :> "selection") @@ ("source_type" :> st)
                 @@ ("source_id" :> id) @@ extra] :
          st \in SourceTypes, id \in SourceIds, extra \in SelectionExtras }

\* bodies without selection: each other tag, an error with and without
\* message text, an unknown tag, an object without type, and non-JSON text
OtherDocs ==
    { [valid |-> TRUE, obj |-> ("type" :> t)] :
          t \in {"no_selection", "token_valid", "token_invalid", "token_stored",
                 "ok", "error", "bogus"} }
    \cup { [valid |-> TRUE, obj |-> ("type" :> "error") @@ ("message" :> m)] :
               m \in {"", "service busy"} }
    \cup { [valid |-> TRUE, obj |-> <<>>],
           [valid |-> FALSE, detail |-> "illegal value"] }

Docs == SelectionDocs \cup OtherDocs

\* bodies the service may answer a store_token request with: each tag once
StoreDocs ==
    OtherDocs
    \cup { [valid |-> TRUE,
            obj   |-> ("type" :> "selection") @@ ("source_type" :> "monitor")
                      @@ ("source_id" :> <<"D", "P", "-", "1">>)] }

\* response frames the service may put on the connection: the four bytes
\* of the length prefix and the number of body bytes that follow them
\* (declared lengths 0, 23, 65536, 65537, 2^31 and 2^32-1)
WireFrames ==
    { [prefix |-> <<0, 0, 0, 0>>,         body |-> 0],
      [prefix |-> <<23, 0, 0, 0>>,        body |-> 23],
      [prefix |-> <<0, 0, 1, 0>>,         body |-> 65536],
      [prefix |-> <<1, 0, 1, 0>>,         body |-> 65537],
      [prefix |-> <<0, 0, 0, 128>>,       body |-> 23],
      [prefix |-> <<255, 255, 255, 255>>, body |-> 23] }

\* exit codes of the delegate tool
DelegateExitCodes == {0, 1, 2, 255}

\* what the delegate tool may print on its stdout
DelegateOutputs ==
    { <<>>,
      <<"\n">>,
      formatMonitorOutput(<<"D", "P", "-", "2">>) \o <<"\n">>,
      <<"a", "\n", "b", "\n">> }

\* values of XDPH_WINDOW_SHARING_LIST
WindowRecord(id, class, title, addr) ==
    id \o MarkHC \o class \o MarkHT \o title \o MarkHE \o addr \o MarkHA

\* a record cut off after its title: no [HE>], no address
TruncatedRecord(id, class, title) == id \o MarkHC \o class \o MarkHT \o title

\* a record whose address lacks its [HA>]
UnclosedRecord(id, class, title, addr) ==
    id \o MarkHC \o class \o MarkHT \o title \o MarkHE \o addr

\* well-formed tables; a table with a truncated record at its end; a table
\* with an id and an address that are no numbers; a table whose first
\* record lacks its last marker
WindowLists ==
    { <<>>,
      WindowRecord(<<"7">>, <<"k">>, <<"t">>, <<"4", "6", "6", "0">>),
      WindowRecord(<<"8">>, <<"k">>, <<"t">>, <<"5">>)
          \o WindowRecord(<<"7">>, <<"k">>, <<"t">>, <<"4", "6", "6", "0">>)
          \o WindowRecord(<<"9">>, <<"k">>, <<"u">>, <<"4", "6", "6", "0">>),
      WindowRecord(<<"7">>, <<"k">>, <<"t">>, <<"4", "6", "6", "0">>)
          \o TruncatedRecord(<<"8">>, <<"k">>, <<"t">>),
      WindowRecord(<<"x">>, <<"k">>, <<"t">>, <<"z", "z">>)
          \o WindowRecord(<<"7">>, <<"k">>, <<"t">>, <<"4", "6", "6", "0">>),
      UnclosedRecord(<<"9">>, <<"k">>, <<"t">>, <<"5">>)
          \o WindowRecord(<<"7">>, <<"k">>, <<"t">>, <<"4", "6", "6", "0">>) }

DialogResults == {"AlwaysAllow", "AllowOnce", "Denied"}

\* ------------------------------------------------------------------------
\* State
\* ------------------------------------------------------------------------

VARIABLES
    pc,                 \* position in main / runPicker / the IPC calls
    args,               \* parseArgs: [dryRun, showHelp]
    exitCode,           \* value returned by main, -1 while running
    error,              \* runPicker: QString error (errorOut of querySelection)
    response,           \* runPicker: IpcResponse response
    shouldStoreToken,   \* runPicker: bool shouldStoreToken
    token,              \* runPicker: QString token
    output,             \* runPicker: QString output
    storeError,         \* runPicker: QString storeError (errorOut of storeToken)
    storeOk,            \* result of storeToken: "none", "true" or "false"
    op,                 \* IPC call in progress: "none", "query" or "store"
    sockAvail,          \* socket.bytesAvailable()
    lenBytes,           \* readLengthPrefixedMessage: prefix bytes read so far
    bytesRead,          \* readLengthPrefixedMessage: qint64 bytesRead
    len,                \* readLengthPrefixedMessage: quint32 len
    data,               \* size of the QByteArray the read returned
    wire,               \* the frame the service answers with
    arrived,            \* bytes of it that reached the socket's buffer
    arrivals,           \* number of pieces they arrived in
    consumed,           \* bytes of it taken by socket.read()
    elapsed,            \* milliseconds spent waiting for it so far
    stdout,             \* characters written to std::cout
    stdoutFlushed,      \* how many of them have been flushed
    consentCalls,       \* calls of showApprovalDialog
    dialogResult,       \* its answer, "none" before
    tokensGenerated,    \* calls of generateApprovalToken
    queryCalls,         \* calls of querySelection
    storeCalls,         \* calls of storeToken
    fallbackCalls,      \* calls of runFallbackPicker
    connections,        \* IPC calls whose socket got connected, in order
    sent,               \* requests written, in order, each with the number
                        \* (position in connections) of the socket used
    delegate,           \* the delegate run: [started, exitCode]
    queryDoc,           \* <<body>> once querySelection has decoded a body
    storeDoc,           \* <<body>> once storeToken has decoded a body
    windowListRead,     \* <<value>> once XDPH_WINDOW_SHARING_LIST was read
    delegateOut,        \* <<text>> once the delegate's stdout was read
    windowsParsed       \* <<entries>> once parseWindowList has returned

progVars == <<args, error, response, shouldStoreToken, token, output, storeError, storeOk>>

readVars == <<op, sockAvail, lenBytes, bytesRead, len, data>>

wireVars == <<wire, arrived, arrivals, consumed, elapsed>>

outVars == <<stdout, stdoutFlushed>>

histVars == <<consentCalls, dialogResult, tokensGenerated, queryCalls, storeCalls,
              fallbackCalls, connections, sent, delegate, queryDoc>>

obsVars == <<storeDoc, windowListRead, delegateOut, windowsParsed>>

vars == <<pc, exitCode, progVars, readVars, wireVars, outVars, histVars, obsVars>>

NoFrame == [prefix |-> <<>>, body |-> 0]

NoDelegate == [started |-> FALSE, exitCode |-> -1]

Init ==
    /\ pc = "main"
    /\ args \in [dryRun : BOOLEAN, showHelp : BOOLEAN]
    /\ exitCode = -1
    /\ error = ""
    /\ response = NewResponse
    /\ shouldStoreToken = FALSE
    /\ token = <<>>
    /\ output = <<>>
    /\ storeError = ""
    /\ storeOk = "none"
    /\ op = "none"
    /\ sockAvail = 0
    /\ lenBytes = <<>>
    /\ bytesRead = 0
    /\ len = <<0>>
    /\ data = 0
    /\ wire = NoFrame
    /\ arrived = 0
    /\ arrivals = 0
    /\ consumed = 0
    /\ elapsed = 0
    /\ stdout = <<>>
    /\ stdoutFlushed = 0
    /\ consentCalls = 0
    /\ dialogResult = "none"
    /\ tokensGenerated = 0
    /\ queryCalls = 0
    /\ storeCalls = 0
    /\ fallbackCalls = 0
    /\ connections = <<>>
    /\ sent = <<>>
    /\ delegate = NoDelegate
    /\ queryDoc = <<>>
    /\ storeDoc = <<>>
    /\ windowListRead = <<>>
    /\ delegateOut = <<>>
    /\ windowsParsed = <<>>

\* return code from main
Terminate(code) ==
    /\ pc' = "done"
    /\ exitCode' = code

\* ------------------------------------------------------------------------
\* main.cpp: main and runDryRun
\* ------------------------------------------------------------------------

\* main(): help, dry run, or the picker workflow
Main ==
    /\ pc = "main"
    /\ IF args.showHelp THEN Terminate(0)
       ELSE IF args.dryRun THEN pc' = "dry_run" /\ UNCHANGED exitCode
       ELSE pc' = "query_connect" /\ UNCHANGED exitCode
    /\ UNCHANGED <<progVars, readVars, wireVars, outVars, histVars>>
    /\ UNCHANGED obsVars

\* runDryRun persisting the token it generated for AlwaysAllow
runDryRunStoring ==
    /\ pc = "dry_run"
    /\ \E result \in DialogResults :
        /\ consentCalls' = consentCalls + 1
        /\ dialogResult' = result
        /\ tokensGenerated' = IF result = "AlwaysAllow" THEN tokensGenerated + 1
                              ELSE tokensGenerated
        /\ IF result = "AlwaysAllow"
           THEN pc' = "store_connect" /\ UNCHANGED exitCode
           ELSE Terminate(IF result = "Denied" THEN 1 ELSE 0)
    /\ UNCHANGED <<progVars, readVars, wireVars, outVars>>
    /\ UNCHANGED <<queryCalls, storeCalls, fallbackCalls, connections, sent, delegate, queryDoc>>
    /\ UNCHANGED obsVars

\* runDryRun(): ask, generate (and drop) a token for AlwaysAllow
runDryRun ==
    /\ pc = "dry_run"
    /\ \E result \in DialogResults :
        /\ consentCalls' = consentCalls + 1
        /\ dialogResult' = result
        /\ tokensGenerated' = IF result = "AlwaysAllow" THEN tokensGenerated + 1
                              ELSE tokensGenerated
        /\ Terminate(IF result = "Denied" THEN 1 ELSE 0)
    /\ UNCHANGED <<progVars, readVars, wireVars, outVars>>
    /\ UNCHANGED <<queryCalls, storeCalls, fallbackCalls, connections, sent, delegate, queryDoc>>
    /\ UNCHANGED obsVars

\* ------------------------------------------------------------------------
\* ipc_client.cpp: sendLengthPrefixedMessage, readLengthPrefixedMessage
\* ------------------------------------------------------------------------

\* *errorOut = msg, for the errorOut of the call in progress
SetErrorOut(msg) ==
    /\ error' = IF op = "query" THEN msg ELSE error
    /\ storeError' = IF op = "store" THEN msg ELSE storeError

\* sendLengthPrefixedMessage(): "" on success, else the message it reports
SendOutcomes ==
    {"", "Failed to write length prefix: ", "Failed to write message body: ",
     "Failed to flush socket: "}

\* little-endian value of the four prefix bytes
ParseLength(bs) ==
    CHOOSE r \in {BigMulAdd(hi3, 256, bs[1]) :
                      hi3 \in {BigMulAdd(hi2, 256, bs[2]) :
                                   hi2 \in {BigMulAdd(hi1, 256, bs[3]) :
                                                hi1 \in {BigOf(bs[4])}}}} : TRUE

\* TooLarge with the limit one byte higher
TooLargeOffByOne(l) == BigGreater(l, BigOf(MaxFrameLen + 1))

\* "if (len > 65536)"
TooLarge(l) == BigGreater(l, BigOf(MaxFrameLen))

\* number of bytes the loop in progress has to collect
Need == IF pc = "read_len" THEN PrefixLen ELSE BigToInt(len)

\* bytes of the frame that have not reached the socket's buffer yet
Outstanding == PrefixLen + wire.body - arrived

\* sizes of the next piece to arrive: everything outstanding, or a partial
\* piece while the frame has been split fewer than MaxArrivals times
ArrivalSizes ==
    IF Outstanding = 0 THEN {}
    ELSE {Outstanding}
         \cup (IF arrivals < MaxArrivals THEN 1..Min(MaxChunk, Outstanding) ELSE {})

\* milliseconds until the next piece of a frame reaches the socket: within
\* the limit of a wait, or beyond it
Delays == {4000, 6000}

\* WaitLimit as one limit for the whole message: what is left of 5000 ms
WaitLimitWholeMessage(spent) == ReadTimeoutMs - spent

\* the limit of one waitForReadyRead(5000) call, for a read that has spent
\* the given time waiting so far
WaitLimit(spent) == ReadTimeoutMs

\* readLengthPrefixedMessage() returns a QByteArray of the given size to
\* querySelection or storeToken; its locals are gone
ReadReturn(size) ==
    /\ data' = size
    /\ pc' = IF op = "query" THEN "query_after_read" ELSE "store_after_read"
    /\ lenBytes' = <<>>
    /\ bytesRead' = 0
    /\ len' = <<0>>

\* WaitForReadyRead waiting before every read, with bytes buffered or not
WaitForReadyReadAlways ==
    /\ pc \in {"read_len", "read_body"}
    /\ bytesRead < Need
    /\ \E d \in Delays :
        IF d < WaitLimit(elapsed) /\ ArrivalSizes # {}
        THEN \E k \in ArrivalSizes :
            /\ sockAvail' = sockAvail + k
            /\ arrived' = arrived + k
            /\ arrivals' = arrivals + 1
            /\ elapsed' = elapsed + d
            /\ UNCHANGED <<pc, error, storeError, lenBytes, bytesRead, len, data>>
        ELSE
            /\ SetErrorOut(IF pc = "read_len"
                           THEN "Timeout waiting for response length: "
                           ELSE "Timeout waiting for response body: ")
            /\ ReadReturn(0)
            /\ elapsed' = elapsed + WaitLimit(elapsed)
            /\ UNCHANGED <<sockAvail, arrived, arrivals>>
    /\ UNCHANGED <<exitCode, args, response, shouldStoreToken, token, output, storeOk>>
    /\ UNCHANGED <<op, wire, consumed, outVars, histVars>>
    /\ UNCHANGED obsVars

\* "if (socket.bytesAvailable() == 0) { if (!socket.waitForReadyRead(5000))"
\* of either loop: the next piece of the frame is d milliseconds away; it
\* arrives within the limit of this wait, or the wait times out
WaitForReadyRead ==
    /\ pc \in {"read_len", "read_body"}
    /\ bytesRead < Need
    /\ sockAvail = 0
    /\ \E d \in Delays :
        IF d < WaitLimit(elapsed) /\ ArrivalSizes # {}
        THEN \E k \in ArrivalSizes :
            /\ sockAvail' = k
            /\ arrived' = arrived + k
            /\ arrivals' = arrivals + 1
            /\ elapsed' = elapsed + d
            /\ UNCHANGED <<pc, error, storeError, lenBytes, bytesRead, len, data>>
        ELSE
            /\ SetErrorOut(IF pc = "read_len"
                           THEN "Timeout waiting for response length: "
                           ELSE "Timeout waiting for response body: ")
            /\ ReadReturn(0)
            /\ elapsed' = elapsed + WaitLimit(elapsed)
            /\ UNCHANGED <<sockAvail, arrived, arrivals>>
    /\ UNCHANGED <<exitCode, args, response, shouldStoreToken, token, output, storeOk>>
    /\ UNCHANGED <<op, wire, consumed, outVars, histVars>>
    /\ UNCHANGED obsVars

\* "qint64 n = socket.read(buf + bytesRead, N - bytesRead); if (n <= 0)"
\* of either loop
SocketRead ==
    /\ pc \in {"read_len", "read_body"}
    /\ bytesRead < Need
    /\ sockAvail > 0
    /\ \E n \in {-1, 0, Min(sockAvail, Need - bytesRead)} :
        IF n <= 0
        THEN /\ SetErrorOut(IF pc = "read_len"
                            THEN "Failed to read length prefix: "
                            ELSE "Failed to read response body: ")
             /\ ReadReturn(0)
             /\ UNCHANGED <<sockAvail, consumed>>
        ELSE /\ bytesRead' = bytesRead + n
             /\ sockAvail' = sockAvail - n
             /\ consumed' = consumed + n
             /\ lenBytes' = IF pc = "read_len"
                            THEN lenBytes \o SubSeq(wire.prefix, bytesRead + 1, bytesRead + n)
                            ELSE lenBytes
             /\ UNCHANGED <<pc, error, storeError, len, data>>
    /\ UNCHANGED <<exitCode, args, response, shouldStoreToken, token, output, storeOk>>
    /\ UNCHANGED <<op, wire, arrived, arrivals, elapsed, outVars, histVars>>
    /\ UNCHANGED obsVars

\* the prefix loop has ended: parse and validate the length, start on the
\* body
ReadLengthDone ==
    /\ pc = "read_len"
    /\ ~(bytesRead < PrefixLen)
    /\ IF TooLarge(ParseLength(lenBytes))
       THEN /\ SetErrorOut("Response too large: ")
            /\ ReadReturn(0)
       ELSE /\ len' = ParseLength(lenBytes)
            /\ bytesRead' = 0
            /\ pc' = "read_body"
            /\ UNCHANGED <<error, storeError, lenBytes, data>>
    /\ UNCHANGED <<exitCode, args, response, shouldStoreToken, token, output, storeOk>>
    /\ UNCHANGED <<op, sockAvail, wireVars, outVars, histVars>>
    /\ UNCHANGED obsVars

\* the body loop has ended: "return data"
ReadBodyDone ==
    /\ pc = "read_body"
    /\ ~(bytesRead < BigToInt(len))
    /\ ReadReturn(BigToInt(len))
    /\ UNCHANGED <<exitCode, progVars, op, sockAvail, wireVars, outVars, histVars>>
    /\ UNCHANGED obsVars

\* ------------------------------------------------------------------------
\* ipc_client.cpp: querySelection
\* ------------------------------------------------------------------------

\* connectToServer + waitForConnected(3000)
QueryConnect ==
    /\ pc = "query_connect"
    /\ \E connected \in BOOLEAN :
        IF connected
        THEN /\ connections' = Append(connections, "query")
             /\ pc' = "query_send"
             /\ UNCHANGED <<response, error>>
        ELSE /\ response' = [NewResponse EXCEPT !.type = "Error",
                                !.errorMessage = "Failed to connect to service (is it running?): "]
             /\ error' = "Failed to connect to service (is it running?): "
             /\ pc' = "check_query"
             /\ UNCHANGED connections
    /\ queryCalls' = queryCalls + 1
    /\ op' = IF pc' = "check_query" THEN "none" ELSE "query"
    /\ UNCHANGED <<exitCode, args, shouldStoreToken, token, output, storeError, storeOk>>
    /\ UNCHANGED <<sockAvail, lenBytes, bytesRead, len, data, wireVars, outVars>>
    /\ UNCHANGED <<consentCalls, dialogResult, tokensGenerated, storeCalls,
                   fallbackCalls, sent, delegate, queryDoc>>
    /\ UNCHANGED obsVars

\* send {"type":"query_selection"}; the service picks its answer
QuerySend ==
    /\ pc = "query_send"
    /\ \E outcome \in SendOutcomes :
        IF outcome = ""
        THEN /\ sent' = Append(sent, [type |-> "query_selection", conn |-> Len(connections)])
             /\ \E frame \in WireFrames : wire' = frame
             /\ arrived' = 0
             /\ arrivals' = 0
             /\ consumed' = 0
             /\ elapsed' = 0
             /\ pc' = "read_len"
             /\ UNCHANGED <<response, error, op>>
        ELSE /\ error' = outcome
             /\ response' = [NewResponse EXCEPT !.type = "Error", !.errorMessage = outcome]
             /\ pc' = "check_query"
             /\ op' = "none"
             /\ UNCHANGED <<sent, wireVars>>
    /\ UNCHANGED <<exitCode, args, shouldStoreToken, token, output, storeError, storeOk>>
    /\ UNCHANGED <<sockAvail, lenBytes, bytesRead, len, data, outVars>>
    /\ UNCHANGED <<consentCalls, dialogResult, tokensGenerated, queryCalls, storeCalls,
                   fallbackCalls, connections, delegate, queryDoc>>
    /\ UNCHANGED obsVars

\* "if (data.isEmpty())" ... "return parseResponse(data, errorOut)"; the
\* content of a non-empty body is whatever the service wrote
QueryAfterRead ==
    /\ pc = "query_after_read"
    /\ IF data = 0
       THEN /\ response' = [NewResponse EXCEPT !.type = "Error", !.errorMessage = error]
            /\ UNCHANGED <<error, queryDoc>>
       ELSE \E doc \in Docs :
            /\ response' = parseResponse(doc, error).response
            /\ error' = parseResponse(doc, error).error
            /\ queryDoc' = <<doc>>
    /\ pc' = "check_query"
    /\ op' = "none"
    /\ sockAvail' = 0
    /\ data' = 0
    /\ UNCHANGED <<exitCode, args, shouldStoreToken, token, output, storeError, storeOk>>
    /\ UNCHANGED <<lenBytes, bytesRead, len, wireVars, outVars>>
    /\ UNCHANGED <<consentCalls, dialogResult, tokensGenerated, queryCalls, storeCalls,
                   fallbackCalls, connections, sent, delegate>>
    /\ UNCHANGED obsVars

\* ------------------------------------------------------------------------
\* ipc_client.cpp: storeToken
\* ------------------------------------------------------------------------

\* StoreReturn starting storeToken() over after a failure
StoreReturnRetry(ok) ==
    /\ storeOk' = IF ok THEN "true" ELSE "false"
    /\ pc' = IF ok THEN "success" ELSE "store_connect"
    /\ op' = "none"

\* storeToken() returns to runPicker, which logs the outcome
StoreReturn(ok) ==
    /\ storeOk' = IF ok THEN "true" ELSE "false"
    /\ pc' = "success"
    /\ op' = "none"

\* StoreConnect sending on the socket querySelection opened, without a
\* connection of its own
StoreConnectReuse ==
    /\ pc = "store_connect"
    /\ storeCalls' = storeCalls + 1
    /\ pc' = "store_send"
    /\ op' = "store"
    /\ UNCHANGED <<storeError, storeOk, connections>>
    /\ UNCHANGED <<exitCode, args, error, response, shouldStoreToken, token, output>>
    /\ UNCHANGED <<sockAvail, lenBytes, bytesRead, len, data, wireVars, outVars>>
    /\ UNCHANGED <<consentCalls, dialogResult, tokensGenerated, queryCalls,
                   fallbackCalls, sent, delegate, queryDoc>>
    /\ UNCHANGED obsVars

\* connectToServer + waitForConnected(3000)
StoreConnect ==
    /\ pc = "store_connect"
    /\ storeCalls' = storeCalls + 1
    /\ \E connected \in BOOLEAN :
        IF connected
        THEN /\ connections' = Append(connections, "store")
             /\ pc' = "store_send"
             /\ op' = "store"
             /\ UNCHANGED <<storeError, storeOk>>
        ELSE /\ storeError' = "Failed to connect to service: "
             /\ StoreReturn(FALSE)
             /\ UNCHANGED connections
    /\ UNCHANGED <<exitCode, args, error, response, shouldStoreToken, token, output>>
    /\ UNCHANGED <<sockAvail, lenBytes, bytesRead, len, data, wireVars, outVars>>
    /\ UNCHANGED <<consentCalls, dialogResult, tokensGenerated, queryCalls,
                   fallbackCalls, sent, delegate, queryDoc>>
    /\ UNCHANGED obsVars

\* send {"type":"store_token","token":token}; the service picks its answer
StoreSend ==
    /\ pc = "store_send"
    /\ \E outcome \in SendOutcomes :
        IF outcome = ""
        THEN /\ sent' = Append(sent, [type |-> "store_token", token |-> token,
                                   conn |-> Len(connections)])
             /\ \E frame \in WireFrames : wire' = frame
             /\ arrived' = 0
             /\ arrivals' = 0
             /\ consumed' = 0
             /\ elapsed' = 0
             /\ pc' = "read_len"
             /\ UNCHANGED <<storeError, storeOk, op>>
        ELSE /\ storeError' = outcome
             /\ StoreReturn(FALSE)
             /\ UNCHANGED <<sent, wireVars>>
    /\ UNCHANGED <<exitCode, args, error, response, shouldStoreToken, token, output>>
    /\ UNCHANGED <<sockAvail, lenBytes, bytesRead, len, data, outVars>>
    /\ UNCHANGED <<consentCalls, dialogResult, tokensGenerated, queryCalls, storeCalls,
                   fallbackCalls, connections, delegate, queryDoc>>
    /\ UNCHANGED obsVars

\* StoreVerdict taking every response other than Error for success
StoreVerdictLenient(r) ==
    IF r.response.type = "Error"
    THEN [ok |-> FALSE, error |-> r.response.errorMessage]
    ELSE [ok |-> TRUE, error |-> r.error]

\* what storeToken makes of a decoded response: [ok, error]
StoreVerdict(r) ==
    IF r.response.type = "TokenStored"
    THEN [ok |-> TRUE, error |-> r.error]
    ELSE IF r.response.type = "Error"
    THEN [ok |-> FALSE, error |-> r.response.errorMessage]
    ELSE [ok |-> FALSE, error |-> "Unexpected response type"]

\* "if (data.isEmpty()) return false" ... the verdict on the response
StoreAfterRead ==
    /\ pc = "store_after_read"
    /\ IF data = 0
       THEN /\ StoreReturn(FALSE)
            /\ UNCHANGED <<storeError, storeDoc>>
       ELSE \E doc \in StoreDocs :
            LET v == StoreVerdict(parseResponse(doc, storeError))
            IN  /\ StoreReturn(v.ok)
                /\ storeError' = v.error
                /\ storeDoc' = <<doc>>
    /\ sockAvail' = 0
    /\ data' = 0
    /\ UNCHANGED <<exitCode, args, error, response, shouldStoreToken, token, output>>
    /\ UNCHANGED <<lenBytes, bytesRead, len, wireVars, outVars, histVars, windowListRead,
                   delegateOut, windowsParsed>>

\* ------------------------------------------------------------------------
\* picker_logic.cpp: runFallbackPicker
\* ------------------------------------------------------------------------

IsSpace(c) == c \in {" ", "\t", "\n", "\r"}

RECURSIVE TrimLeft(_)
TrimLeft(cs) == IF cs # <<>> /\ IsSpace(Head(cs)) THEN TrimLeft(Tail(cs)) ELSE cs

RECURSIVE TrimRight(_)
TrimRight(cs) ==
    IF cs # <<>> /\ IsSpace(cs[Len(cs)]) THEN TrimRight(SubSeq(cs, 1, Len(cs) - 1)) ELSE cs

\* QString::trimmed()
Trimmed(cs) == TrimRight(TrimLeft(cs))

\* FallbackExitCode passing the delegate's exit code through
FallbackExitCodeVerbatim(code) == code

\* "return process.exitCode() == 0 ? 0 : 1"
FallbackExitCode(code) == IF code = 0 THEN 0 ELSE 1

\* process.start + waitForStarted(5000)
FallbackStart ==
    /\ pc = "fallback"
    /\ fallbackCalls' = fallbackCalls + 1
    /\ \E started \in BOOLEAN :
        IF started
        THEN /\ delegate' = [started |-> TRUE, exitCode |-> -1]
             /\ pc' = "fallback_wait"
             /\ UNCHANGED exitCode
        ELSE /\ delegate' = NoDelegate
             /\ Terminate(1)
    /\ UNCHANGED <<progVars, readVars, wireVars, outVars>>
    /\ UNCHANGED <<consentCalls, dialogResult, tokensGenerated, queryCalls, storeCalls,
                   connections, sent, queryDoc>>
    /\ UNCHANGED obsVars

\* waitForFinished(-1), forward the delegate's stdout, return its exit code
\* as 0 or 1
FallbackFinish ==
    /\ pc = "fallback_wait"
    /\ \E code \in DelegateExitCodes, out \in DelegateOutputs :
        /\ delegate' = [started |-> TRUE, exitCode |-> code]
        /\ stdout' = IF out # <<>> THEN stdout \o Trimmed(out) \o <<"\n">> ELSE stdout
        /\ stdoutFlushed' = IF out # <<>> THEN Len(stdout') ELSE stdoutFlushed
        /\ delegateOut' = <<out>>
        /\ Terminate(FallbackExitCode(code))
    /\ UNCHANGED <<progVars, readVars, wireVars>>
    /\ UNCHANGED <<consentCalls, dialogResult, tokensGenerated, queryCalls, storeCalls,
                   fallbackCalls, connections, sent, queryDoc>>
    /\ UNCHANGED <<storeDoc, windowListRead, windowsParsed>>

\* ------------------------------------------------------------------------
\* main.cpp: runPicker
\* ------------------------------------------------------------------------

\* QueryFailed with the emptiness test negated
QueryFailedNegated(r, err) == r.type = "Error" /\ err = ""

\* QueryFailed taking every Error for a failed query, message or not
QueryFailedAnyError(r, err) == r.type = "Error"

\* "if (response.type == ResponseType::Error && !error.isEmpty())"
QueryFailed(r, err) == r.type = "Error" /\ err # ""

\* the check after querySelection(): a failed query goes to the fallback
CheckQuery ==
    /\ pc = "check_query"
    /\ pc' = IF QueryFailed(response, error) THEN "fallback" ELSE "switch"
    /\ UNCHANGED <<exitCode, progVars, readVars, wireVars, outVars, histVars>>
    /\ UNCHANGED obsVars

\* SwitchTarget asking for consent whatever hasApprovalToken says
SwitchTargetAlwaysAsk(r) ==
    CASE r.type = "Selection"   -> "dialog"
      [] r.type = "NoSelection" -> "fallback"
      [] r.type = "Error"       -> "return_1"
      [] OTHER                  -> "return_1"

\* SwitchTarget taking a token-related response for a success
SwitchTargetTokenSuccess(r) ==
    CASE r.type = "Selection"   -> IF ~r.hasApprovalToken THEN "dialog" ELSE "format"
      [] r.type = "NoSelection" -> "fallback"
      [] r.type = "Error"       -> "return_1"
      [] OTHER                  -> "success"

\* SwitchTarget validating the source kind before consent is asked
SwitchTargetValidateFirst(r) ==
    CASE r.type = "Selection"   ->
             IF ~(\/ r.sourceType \in {"monitor", "window"}
                  \/ r.sourceType = "region" /\ r.geometry # <<>>)
             THEN "return_1"
             ELSE IF ~r.hasApprovalToken THEN "dialog" ELSE "format"
      [] r.type = "NoSelection" -> "fallback"
      [] r.type = "Error"       -> "return_1"
      [] OTHER                  -> "return_1"

\* SwitchTarget sending a token-related response to the fallback launcher
SwitchTargetOtherFallback(r) ==
    CASE r.type = "Selection"   -> IF ~r.hasApprovalToken THEN "dialog" ELSE "format"
      [] r.type = "NoSelection" -> "fallback"
      [] r.type = "Error"       -> "return_1"
      [] OTHER                  -> "fallback"

\* "switch (response.type)": where each kind of response leads
SwitchTarget(r) ==
    CASE r.type = "Selection"   -> IF ~r.hasApprovalToken THEN "dialog" ELSE "format"
      [] r.type = "NoSelection" -> "fallback"
      [] r.type = "Error"       -> "return_1"
      [] OTHER                  -> "return_1"

SwitchResponse ==
    /\ pc = "switch"
    /\ IF SwitchTarget(response) = "return_1"
       THEN Terminate(1)
       ELSE pc' = SwitchTarget(response) /\ UNCHANGED exitCode
    /\ UNCHANGED <<progVars, readVars, wireVars, outVars, histVars>>
    /\ UNCHANGED obsVars

\* DialogTarget with the Denied case falling through to formatting
DialogTargetFallThrough(result) == "format"

\* DialogTarget putting the question again after Denied
DialogTargetAskAgain(result) == IF result = "Denied" THEN "dialog" ELSE "format"

\* the switch on the dialog result: both approvals go on to formatting,
\* Denied returns 1
DialogTarget(result) == IF result = "Denied" THEN "return_1" ELSE "format"

\* showApprovalDialog() and the switch on its result
ShowApprovalDialog ==
    /\ pc = "dialog"
    /\ consentCalls' = consentCalls + 1
    /\ \E result \in DialogResults :
        /\ dialogResult' = result
        /\ IF result = "AlwaysAllow"
           THEN /\ \E t \in generateApprovalToken : token' = t
                /\ tokensGenerated' = tokensGenerated + 1
                /\ shouldStoreToken' = TRUE
           ELSE UNCHANGED <<token, tokensGenerated, shouldStoreToken>>
        /\ IF DialogTarget(result) = "return_1"
           THEN Terminate(1)
           ELSE pc' = DialogTarget(result) /\ UNCHANGED exitCode
    /\ UNCHANGED <<args, error, response, output, storeError, storeOk>>
    /\ UNCHANGED <<readVars, wireVars, outVars>>
    /\ UNCHANGED <<queryCalls, storeCalls, fallbackCalls, connections, sent, delegate, queryDoc>>
    /\ UNCHANGED obsVars

\* FormatOutputOf with a default: an unknown source type, or a region without
\* geometry, formatted as a monitor
FormatOutputOfDefaultMonitor(r, windowList) ==
    IF r.sourceType = "window" THEN <<formatWindowOutput(r.sourceId, windowList)>>
    ELSE IF r.sourceType = "region" /\ r.geometry # <<>>
    THEN LET geom == r.geometry[1]
         IN  <<formatRegionOutput(r.sourceId, geom.x, geom.y, geom.width, geom.height)>>
    ELSE <<formatMonitorOutput(r.sourceId)>>

\* "Format output based on source type": <<line>>, or <<>> where the code
\* returns 1 (unknown source type, region without geometry)
FormatOutputOf(r, windowList) ==
    IF r.sourceType = "monitor" THEN <<formatMonitorOutput(r.sourceId)>>
    ELSE IF r.sourceType = "window" THEN <<formatWindowOutput(r.sourceId, windowList)>>
    ELSE IF r.sourceType = "region"
    THEN IF r.geometry # <<>>
         THEN LET geom == r.geometry[1]
              IN  <<formatRegionOutput(r.sourceId, geom.x, geom.y, geom.width, geom.height)>>
         ELSE <<>>
    ELSE <<>>

\* AfterFormat persisting the token before the output is written
AfterFormatStoreFirst == IF shouldStoreToken THEN "store_connect" ELSE "emit"

\* what follows formatting: the output is written first
AfterFormat == "emit"

FormatOutput ==
    /\ pc = "format"
    /\ \E windowList \in WindowLists :
        /\ LET formatted == FormatOutputOf(response, windowList)
           IN  IF formatted = <<>>
               THEN Terminate(1) /\ UNCHANGED output
               ELSE output' = formatted[1] /\ pc' = AfterFormat /\ UNCHANGED exitCode
        /\ windowListRead' = IF response.sourceType = "window"
                              THEN <<windowList>> ELSE windowListRead
        /\ windowsParsed' = IF response.sourceType = "window"
                             THEN <<parseWindowList(windowList)>> ELSE windowsParsed
    /\ UNCHANGED <<args, error, response, shouldStoreToken, token, storeError, storeOk>>
    /\ UNCHANGED <<readVars, wireVars, outVars, histVars, storeDoc, delegateOut>>

\* EmitOutput with the log line "Output: ..." sent to std::cout as well
EmitOutputLogged ==
    /\ pc = "emit"
    /\ stdout' = stdout \o <<"O", "u", "t", "p", "u", "t", ":", " ">> \o output \o <<"\n">>
                 \o output \o <<"\n">>
    /\ stdoutFlushed' = Len(stdout')
    /\ pc' = "flush"
    /\ UNCHANGED <<exitCode, progVars, readVars, wireVars, histVars>>
    /\ UNCHANGED obsVars

\* "std::cout << output.toStdString() << std::endl": the line, a newline,
\* and the flush that std::endl does
EmitOutput ==
    /\ pc = "emit"
    /\ stdout' = stdout \o output \o <<"\n">>
    /\ stdoutFlushed' = Len(stdout')
    /\ pc' = "flush"
    /\ UNCHANGED <<exitCode, progVars, readVars, wireVars, histVars>>
    /\ UNCHANGED obsVars

\* AfterFlush persisting whenever a line was emitted
AfterFlushAlwaysStore(store) == "store_connect"

\* what follows the flush: "if (shouldStoreToken)" storeToken(), else the
\* return
AfterFlush(store) == IF store THEN "store_connect" ELSE "success"

\* "std::cout.flush()"
FlushOutput ==
    /\ pc = "flush"
    /\ stdoutFlushed' = Len(stdout)
    /\ pc' = AfterFlush(shouldStoreToken)
    /\ UNCHANGED <<exitCode, progVars, readVars, wireVars, stdout, histVars>>
    /\ UNCHANGED obsVars

\* ReturnSuccess turning a failed storeToken() into exit code 1
ReturnSuccessUnlessStoreFailed ==
    /\ pc = "success"
    /\ Terminate(IF storeOk = "false" THEN 1 ELSE 0)
    /\ UNCHANGED <<progVars, readVars, wireVars, outVars, histVars>>
    /\ UNCHANGED obsVars

\* "Exiting with SUCCESS": return 0
ReturnSuccess ==
    /\ pc = "success"
    /\ Terminate(0)
    /\ UNCHANGED <<progVars, readVars, wireVars, outVars, histVars>>
    /\ UNCHANGED obsVars

\* ------------------------------------------------------------------------
\* Specification
\* ------------------------------------------------------------------------

Next ==
    \/ Main
    \/ runDryRun
    \/ QueryConnect
    \/ QuerySend
    \/ WaitForReadyRead
    \/ SocketRead
    \/ ReadLengthDone
    \/ ReadBodyDone
    \/ QueryAfterRead
    \/ CheckQuery
    \/ SwitchResponse
    \/ ShowApprovalDialog
    \/ FormatOutput
    \/ EmitOutput
    \/ FlushOutput
    \/ StoreConnect
    \/ StoreSend
    \/ StoreAfterRead
    \/ ReturnSuccess
    \/ FallbackStart
    \/ FallbackFinish

Spec == Init /\ [][Next]_vars

\* the program is one thread that runs whenever it can take a step: a wait
\* ends by its event or its timeout, the prompt is answered and a started
\* delegate finishes
LiveSpec == Init /\ [][Next]_vars /\ WF_vars(Next)

TypeOK ==
    /\ pc \in {"main", "dry_run", "query_connect", "query_send", "read_len", "read_body",
               "query_after_read", "check_query", "switch", "dialog", "format", "emit",
               "flush", "store_connect", "store_send", "store_after_read", "success",
               "fallback", "fallback_wait", "done"}
    /\ exitCode \in {-1, 0, 1}
    /\ op \in {"none", "query", "store"}
    /\ storeOk \in {"none", "true", "false"}
    /\ sockAvail >= 0
    /\ bytesRead >= 0
    /\ stdoutFlushed <= Len(stdout)

\* ------------------------------------------------------------------------
\* Vocabulary of the properties
\* ------------------------------------------------------------------------

\* the run is the picker workflow (runPicker), not --help or --dry-run
Workflow == ~args.showHelp /\ ~args.dryRun

Terminated == pc = "done"

\* querySelection() has been called and has returned
QueryReturned == queryCalls = 1 /\ op # "query" /\ pc # "query_connect"

\* messages querySelection() reports for a failed connect, send or read
TransportErrors ==
    {"Failed to connect to service (is it running?): ",
     "Failed to write length prefix: ", "Failed to write message body: ",
     "Failed to flush socket: ",
     "Timeout waiting for response length: ", "Timeout waiting for response body: ",
     "Failed to read length prefix: ", "Failed to read response body: ",
     "Response too large: "}

\* the query failed in the transport: no body was decoded
QueryTransportError == QueryReturned /\ queryDoc = <<>> /\ error \in TransportErrors

\* the query decoded a body into a response of the given kind
QueryAnswered(kind) == QueryReturned /\ queryDoc # <<>> /\ response.type = kind

\* storeToken() has been entered, or any of its effects is visible
StoreStarted ==
    \/ storeCalls > 0
    \/ op = "store"
    \/ pc \in {"store_send", "store_after_read"}
    \/ \E i \in 1..Len(connections) : connections[i] = "store"
    \/ \E i \in 1..Len(sent) : sent[i].type = "store_token"

\* number of newline characters in a text
Newlines(cs) == Cardinality({i \in 1..Len(cs) : cs[i] = "\n"})

\* stdout holds exactly the formatted line, newline-terminated and flushed
LineEmitted ==
    /\ output # <<>>
    /\ stdout = output \o <<"\n">>
    /\ Newlines(stdout) = 1
    /\ stdoutFlushed = Len(stdout)

\* monitor, window, or region with geometry
ValidKind(r) ==
    \/ r.sourceType \in {"monitor", "window"}
    \/ r.sourceType = "region" /\ r.geometry # <<>>

\* what runFallbackPicker() returns for the delegate run on record
FallbackResult == IF delegate.started /\ delegate.exitCode = 0 THEN 0 ELSE 1

\* ------------------------------------------------------------------------
\* Properties
\* ------------------------------------------------------------------------

\* C1: whenever storeToken() has started (call entered, connection opened
\* or store_token frame sent), the consent answer was AlwaysAllow and the
\* output line has already been written to stdout and flushed, and the
\* program is past the write and the flush.
C1_OutputBeforeStore ==
    StoreStarted =>
        /\ dialogResult = "AlwaysAllow"
        /\ LineEmitted
        /\ pc \notin {"format", "emit", "flush"}

\* storeToken() is talking to the service after an AlwaysAllow answer, with
\* the line on stdout
C1_Witness ==
    /\ pc = "store_send"
    /\ dialogResult = "AlwaysAllow"
    /\ LineEmitted

\* C2: once storeToken() has been called, consent has been asked exactly
\* once and stays so, and whatever storeToken() returned the run ends with
\* exit code 0.
C2_StoreOutcomeIgnored ==
    StoreStarted =>
        /\ consentCalls = 1
        /\ fallbackCalls = 0
        /\ Terminated => exitCode = 0

\* a run has ended after storeToken() failed
C2_Witness ==
    /\ Terminated
    /\ storeCalls = 1
    /\ storeOk = "false"
    /\ storeError = "Timeout waiting for response length: "
    /\ exitCode = 0

\* C3: after a query that failed in the transport or was answered with
\* no_selection, consent is never asked, storeToken() never called, the
\* fallback launcher runs (at most once, and exactly once by the end) and
\* the run ends with what the launcher returned.
C3_FailedQueryFallsBack ==
    (Workflow /\ (QueryTransportError \/ QueryAnswered("NoSelection"))) =>
        /\ consentCalls = 0
        /\ ~StoreStarted
        /\ stdout # <<>> => fallbackCalls = 1
        /\ fallbackCalls <= 1
        /\ pc \in {"check_query", "switch", "fallback", "fallback_wait", "done"}
        /\ Terminated => (fallbackCalls = 1 /\ exitCode = FallbackResult)

\* a run whose query hit an oversized length prefix has ended through the
\* fallback, the delegate having exited with 0
C3_Witness ==
    /\ Terminated
    /\ QueryTransportError
    /\ error = "Response too large: "
    /\ fallbackCalls = 1
    /\ delegate = [started |-> TRUE, exitCode |-> 0]
    /\ exitCode = 0

\* C4 (as claimed): a run whose query decoded a body into an Error response
\* has invoked the fallback launcher by the time it ends.
C4_ErrorResponseFallsBack ==
    (Workflow /\ QueryAnswered("Error") /\ Terminated) => fallbackCalls = 1

\* C5: after a Selection with hasApprovalToken = true, consent is never
\* asked, no token generated, storeToken() and the fallback never called;
\* for a valid source kind the run ends with the line emitted and exit code
\* 0, and for monitor DP-1 the line is "[SELECTION]/screen:DP-1".
C5_AutoApproved ==
    (Workflow /\ QueryAnswered("Selection") /\ response.hasApprovalToken) =>
        /\ consentCalls = 0
        /\ dialogResult = "none"
        /\ tokensGenerated = 0
        /\ token = <<>>
        /\ ~StoreStarted
        /\ fallbackCalls = 0
        /\ (Terminated /\ ValidKind(response)) => (LineEmitted /\ exitCode = 0)
        /\ (Terminated /\ response.sourceType = "monitor"
               /\ response.sourceId = <<"D", "P", "-", "1">>)
            => StrOf(stdout) = "[SELECTION]/screen:DP-1\n"

\* an auto-approved monitor selection has been emitted
C5_Witness ==
    /\ Terminated
    /\ QueryAnswered("Selection")
    /\ response.hasApprovalToken
    /\ StrOf(stdout) = "[SELECTION]/screen:DP-1\n"
    /\ exitCode = 0

\* C6: once the consent answer is Denied, the run has ended with exit code
\* 1, stdout is empty, no token was generated and storeToken() not called.
C6_DeniedExits ==
    (Workflow /\ dialogResult = "Denied") =>
        /\ Terminated
        /\ exitCode = 1
        /\ stdout = <<>>
        /\ tokensGenerated = 0
        /\ token = <<>>
        /\ ~StoreStarted
        /\ fallbackCalls = 0

\* the user has denied a selection that needed consent
C6_Witness ==
    /\ Workflow
    /\ dialogResult = "Denied"
    /\ QueryAnswered("Selection")
    /\ consentCalls = 1
    /\ Terminated

\* C7 (as claimed): a run whose consent answer was AllowOnce ends with the
\* line emitted and exit code 0, no token generated, storeToken() not
\* called; and storeToken() is called only after an AlwaysAllow answer.
C7_AllowOnceEmits ==
    /\ (Workflow /\ dialogResult = "AllowOnce") =>
           /\ tokensGenerated = 0
           /\ ~StoreStarted
           /\ Terminated => (LineEmitted /\ exitCode = 0)
    /\ StoreStarted => dialogResult = "AlwaysAllow"

\* C7 (amended): as claimed, for a valid source kind (monitor, window, or
\* region with geometry); for any source kind no token is generated and
\* storeToken() is not called, and storeToken() is called only after an
\* AlwaysAllow answer.
C7_AllowOnceEmitsValidKind ==
    /\ (Workflow /\ dialogResult = "AllowOnce") =>
           /\ tokensGenerated = 0
           /\ token = <<>>
           /\ ~StoreStarted
           /\ (Terminated /\ ValidKind(response)) => (LineEmitted /\ exitCode = 0)
    /\ StoreStarted => dialogResult = "AlwaysAllow"

\* an AllowOnce run has ended with its line emitted
C7_Witness ==
    /\ Workflow
    /\ Terminated
    /\ dialogResult = "AllowOnce"
    /\ ValidKind(response)
    /\ LineEmitted
    /\ storeCalls = 0
    /\ exitCode = 0

\* C8: in a workflow run that has not called the fallback launcher, stdout
\* never holds more than one line; when the run ends with exit code 0
\* stdout holds exactly the formatted line, and when it ends with exit code
\* 1 stdout is empty.
C8_OneLineOrNothing ==
    (Workflow /\ fallbackCalls = 0) =>
        /\ Newlines(stdout) <= 1
        /\ stdout # <<>> => LineEmitted
        /\ (Terminated /\ exitCode = 0) => LineEmitted
        /\ (Terminated /\ exitCode = 1) => stdout = <<>>
        /\ Terminated => exitCode \in {0, 1}

\* a run has ended with one line on stdout after the persistence step, the
\* longest path on which a second write could happen
C8_Witness ==
    /\ Workflow
    /\ Terminated
    /\ fallbackCalls = 0
    /\ storeCalls = 1
    /\ Newlines(stdout) = 1
    /\ exitCode = 0

\* C9 (as claimed): when the delegate has run, the workflow's exit code is
\* the delegate's exit code.
C9_DelegateCodeVerbatim ==
    (Terminated /\ delegate.started) => exitCode = delegate.exitCode

\* C9 (amended): when the delegate has run, the workflow's exit code is 0
\* if the delegate's exit code is 0 and 1 otherwise.
C9_DelegateCodeZeroOrOne ==
    (Terminated /\ delegate.started) =>
        /\ delegate.exitCode = 0 => exitCode = 0
        /\ delegate.exitCode # 0 => exitCode = 1

\* the delegate has exited with 2 and the workflow with 1
C9_Witness ==
    /\ Terminated
    /\ fallbackCalls = 1
    /\ delegate = [started |-> TRUE, exitCode |-> 2]
    /\ exitCode = 1

\* the selection was approved: by a stored token or by the user
Approved ==
    /\ QueryAnswered("Selection")
    /\ \/ response.hasApprovalToken
       \/ dialogResult \in {"AllowOnce", "AlwaysAllow"}

\* C10: a workflow run ends with exit code 0 or 1; it is 0 exactly when
\* the selection was approved and its line emitted, or the delegate ran and
\* exited with 0.
C10_ExitCodes ==
    (Workflow /\ Terminated) =>
        /\ exitCode \in {0, 1}
        /\ exitCode = 0 <=>
              \/ Approved /\ LineEmitted /\ fallbackCalls = 0
              \/ fallbackCalls = 1 /\ delegate.started /\ delegate.exitCode = 0

\* a run has ended with exit code 1 on a token-related answer to the query
C10_Witness ==
    /\ Workflow
    /\ Terminated
    /\ QueryAnswered("TokenStored")
    /\ exitCode = 1
    /\ stdout = <<>>

\* C11: a Selection whose source type is none of monitor, window, region, or
\* is region without geometry, never gets past formatting: nothing is
\* written to stdout, storeToken() is not started (whatever the consent
\* answer), the fallback is not run, and the run ends with exit code 1.
C11_InvalidKindHardError ==
    (Workflow /\ QueryAnswered("Selection") /\ ~ValidKind(response)) =>
        /\ pc \in {"check_query", "switch", "dialog", "format", "done"}
        /\ stdout = <<>>
        /\ ~StoreStarted
        /\ fallbackCalls = 0
        /\ Terminated => exitCode = 1

\* a run answered AlwaysAllow for a selection of unknown source type has
\* ended with exit code 1
C11_Witness ==
    /\ Workflow
    /\ Terminated
    /\ QueryAnswered("Selection")
    /\ response.sourceType = "screen"
    /\ dialogResult = "AlwaysAllow"
    /\ shouldStoreToken
    /\ exitCode = 1
    /\ stdout = <<>>

\* a run answered AlwaysAllow for a region without geometry has ended with
\* exit code 1
C11_WitnessRegion ==
    /\ Workflow
    /\ Terminated
    /\ QueryAnswered("Selection")
    /\ response.sourceType = "region"
    /\ response.geometry = <<>>
    /\ dialogResult = "AlwaysAllow"
    /\ exitCode = 1

\* the line runPicker() has written, without its newline
EmittedLine == SubSeq(stdout, 1, Len(stdout) - 1)

\* the line the body of the query response calls for, by source kind; for a
\* window, the template followed by a decimal number
LineMatchesBody(line, obj) ==
    LET id == StrOf(obj["source_id"])
    IN  CASE obj["source_type"] = "monitor" ->
                StrOf(line) = "[SELECTION]/screen:" \o id
          [] obj["source_type"] = "window" ->
                /\ Len(line) > 19
                /\ StrOf(SubSeq(line, 1, 19)) = "[SELECTION]/window:"
                /\ \A i \in 20..Len(line) :
                       line[i] \in {"0", "1", "2", "3", "4", "5", "6", "7", "8", "9"}
          [] obj["source_type"] = "region" ->
                /\ JHas(obj, "geometry")
                /\ LET g == obj["geometry"]
                   IN  StrOf(line) = "[SELECTION]/region:" \o id \o "@"
                           \o ToString(g.x) \o "," \o ToString(g.y) \o ","
                           \o ToString(g.width) \o "," \o ToString(g.height)
          [] OTHER -> FALSE

\* C12: the line runPicker() writes is the template of the response's source
\* kind filled with the response's id and geometry, and is a function of
\* the response body alone: it is the same whether the selection was
\* auto-approved, allowed once or always allowed.
C12_LineBySourceKind ==
    (Workflow /\ stdout # <<>> /\ fallbackCalls = 0) =>
        /\ queryDoc # <<>>
        /\ queryDoc[1].valid
        /\ stdout[Len(stdout)] = "\n"
        /\ LineMatchesBody(EmittedLine, queryDoc[1].obj)
        /\ \/ response.hasApprovalToken /\ dialogResult = "none"
           \/ ~response.hasApprovalToken /\ dialogResult \in {"AllowOnce", "AlwaysAllow"}

\* a region line was written after AlwaysAllow
C12_Witness ==
    /\ Workflow
    /\ dialogResult = "AlwaysAllow"
    /\ StrOf(stdout) = "[SELECTION]/region:DP-1@10,20,800,600\n"

\* the same region line was written for an auto-approved selection
C12_WitnessAuto ==
    /\ Workflow
    /\ response.hasApprovalToken
    /\ consentCalls = 0
    /\ StrOf(stdout) = "[SELECTION]/region:DP-1@10,20,800,600\n"

\* a monitor line was written after AllowOnce
C12_WitnessMonitor ==
    /\ Workflow
    /\ dialogResult = "AllowOnce"
    /\ StrOf(stdout) = "[SELECTION]/screen:DP-1\n"

\* a region line with a negative coordinate was written
C12_WitnessNegative ==
    /\ Workflow
    /\ StrOf(stdout) = "[SELECTION]/region:0x1234@-1920,0,1920,1080\n"

\* the frame on the connection declares a body longer than 65536 bytes
\* (65537, 2^31 or 2^32-1)
DeclaredOversized ==
    wire.prefix \in {<<1, 0, 1, 0>>, <<0, 0, 0, 128>>, <<255, 255, 255, 255>>}

\* readLengthPrefixedMessage() has just returned to its caller
ReadReturned == pc \in {"query_after_read", "store_after_read"}

\* the message the caller of the read in progress holds
ReadError == IF op = "query" THEN error ELSE storeError

\* C13: of a frame that declares more than 65536 bytes, only the four prefix
\* bytes are ever taken from the socket: the body loop is not entered, the
\* read returns empty, and once the prefix is complete it returns with
\* "Response too large". A frame that declares exactly 65536 bytes is never
\* rejected as too large: its read returns the 65536 bytes of the body, or
\* fails on a timeout or a read error.
C13_FrameLengthLimit ==
    /\ DeclaredOversized =>
          /\ consumed <= PrefixLen
          /\ pc # "read_body"
          /\ data = 0
          /\ (ReadReturned /\ consumed = PrefixLen) => ReadError = "Response too large: "
    /\ (wire.prefix = <<0, 0, 1, 0>> /\ ReadReturned) =>
          \/ data = 65536 /\ consumed = PrefixLen + 65536
          \/ /\ data = 0
             /\ ReadError \in {"Timeout waiting for response length: ",
                               "Timeout waiting for response body: ",
                               "Failed to read length prefix: ",
                               "Failed to read response body: "}

\* a frame declaring 2^32-1 bytes was rejected after its prefix, with body
\* bytes waiting unread in the socket
C13_Witness ==
    /\ pc = "query_after_read"
    /\ wire.prefix = <<255, 255, 255, 255>>
    /\ consumed = PrefixLen
    /\ arrived > PrefixLen
    /\ data = 0
    /\ error = "Response too large: "

\* a frame declaring 65537 bytes was rejected after its prefix
C13_WitnessJustOver ==
    /\ ReadReturned
    /\ wire.prefix = <<1, 0, 1, 0>>
    /\ consumed = PrefixLen
    /\ data = 0

\* a frame declaring 65536 bytes was read in full
C13_WitnessAccepted ==
    /\ ReadReturned
    /\ wire.prefix = <<0, 0, 1, 0>>
    /\ data = 65536

\* storeToken() has returned to runPicker
StoreReturned == storeOk # "none"

\* the "type" field of a body, "" when the body has none or is not JSON
TagOf(doc) == IF doc.valid /\ JHas(doc.obj, "type") THEN doc.obj["type"] ELSE ""

\* messages storeToken() reports for a failed connect, send or read
StoreTransportErrors ==
    {"Failed to connect to service: ",
     "Failed to write length prefix: ", "Failed to write message body: ",
     "Failed to flush socket: ",
     "Timeout waiting for response length: ", "Timeout waiting for response body: ",
     "Failed to read length prefix: ", "Failed to read response body: ",
     "Response too large: "}

\* C14: storeToken() returns true exactly when it decoded a body tagged
\* token_stored (or ok). A body tagged error makes it return false with the
\* body's message; a body tagged selection, no_selection, token_valid or
\* token_invalid makes it return false with "Unexpected response type"; a
\* failed connect, send or read makes it return false with that failure's
\* message, and so does a frame with an empty body, with no message.
C14_StoreTokenVerdict ==
    StoreReturned =>
        /\ storeOk = "true" <=>
              (storeDoc # <<>> /\ TagOf(storeDoc[1]) \in {"token_stored", "ok"})
        /\ (storeDoc # <<>> /\ TagOf(storeDoc[1]) = "error") =>
              /\ storeOk = "false"
              /\ storeError = JString(storeDoc[1].obj, "message")
        /\ (storeDoc # <<>> /\ TagOf(storeDoc[1]) \in
                {"selection", "no_selection", "token_valid", "token_invalid"}) =>
              /\ storeOk = "false"
              /\ storeError = "Unexpected response type"
        /\ storeDoc = <<>> =>
              /\ storeOk = "false"
              /\ \/ storeError \in StoreTransportErrors
                 \/ storeError = "" /\ wire.prefix = <<0, 0, 0, 0>>

\* storeToken() returned true on a body tagged token_stored
C14_Witness ==
    /\ StoreReturned
    /\ storeOk = "true"
    /\ storeDoc # <<>>
    /\ TagOf(storeDoc[1]) = "token_stored"

\* storeToken() returned false on an error body, with its message
C14_WitnessError ==
    /\ StoreReturned
    /\ storeOk = "false"
    /\ storeDoc # <<>>
    /\ TagOf(storeDoc[1]) = "error"
    /\ storeError = "service busy"

\* storeToken() returned false on a body tagged token_valid
C14_WitnessUnexpected ==
    /\ StoreReturned
    /\ storeOk = "false"
    /\ storeDoc # <<>>
    /\ TagOf(storeDoc[1]) = "token_valid"
    /\ storeError = "Unexpected response type"

\* storeToken() returned false without a connection
C14_WitnessConnect ==
    /\ StoreReturned
    /\ storeOk = "false"
    /\ storeDoc = <<>>
    /\ storeError = "Failed to connect to service: "

\* the Response kind each tag stands for
KindOfTag(tag) ==
    CASE tag = "selection"     -> "Selection"
      [] tag = "no_selection"  -> "NoSelection"
      [] tag = "error"         -> "Error"
      [] tag = "token_valid"   -> "TokenValid"
      [] tag = "token_invalid" -> "TokenInvalid"
      [] tag = "token_stored"  -> "TokenStored"
      [] tag = "ok"            -> "TokenStored"
      [] OTHER                 -> "Error"

KnownTags ==
    {"selection", "no_selection", "error", "token_valid", "token_invalid",
     "token_stored", "ok"}

\* C15: the response querySelection() decoded from a body has the kind of
\* the body's tag (ok counting as token_stored); an unrecognized or missing
\* tag gives Error with "Unknown response type: <tag>", a body that is not
\* JSON gives Error with "Failed to parse response: <detail>", and a
\* selection decodes with hasApprovalToken equal to has_approval_token, false
\* when the field is absent.
C15_DecodeMapping ==
    queryDoc # <<>> =>
        LET doc == queryDoc[1]
            tag == TagOf(doc)
        IN  /\ response.type \in {"Selection", "NoSelection", "Error", "TokenValid",
                                  "TokenInvalid", "TokenStored"}
            /\ doc.valid => response.type = KindOfTag(tag)
            /\ (doc.valid /\ tag \notin KnownTags) =>
                  response.errorMessage = "Unknown response type: " \o tag
            /\ ~doc.valid =>
                  /\ response.type = "Error"
                  /\ response.errorMessage = "Failed to parse response: " \o doc.detail
            /\ tag = "selection" =>
                  response.hasApprovalToken =
                      (/\ JHas(doc.obj, "has_approval_token")
                       /\ doc.obj["has_approval_token"])

\* a selection without has_approval_token was decoded
C15_Witness ==
    /\ queryDoc # <<>>
    /\ TagOf(queryDoc[1]) = "selection"
    /\ ~JHas(queryDoc[1].obj, "has_approval_token")
    /\ response.type = "Selection"
    /\ ~response.hasApprovalToken

\* a body with an unrecognized tag was decoded
C15_WitnessUnknown ==
    /\ queryDoc # <<>>
    /\ TagOf(queryDoc[1]) = "bogus"
    /\ response.type = "Error"
    /\ response.errorMessage = "Unknown response type: bogus"

\* a body without type was decoded
C15_WitnessMissing ==
    /\ queryDoc # <<>>
    /\ queryDoc[1].valid
    /\ ~JHas(queryDoc[1].obj, "type")
    /\ response.errorMessage = "Unknown response type: "

\* a body that is not JSON was decoded
C15_WitnessInvalid ==
    /\ queryDoc # <<>>
    /\ ~queryDoc[1].valid
    /\ response.errorMessage = "Failed to parse response: illegal value"

\* a body tagged ok was decoded
C15_WitnessOk ==
    /\ queryDoc # <<>>
    /\ TagOf(queryDoc[1]) = "ok"
    /\ response.type = "TokenStored"

\* a window selection has been formatted against the window table read
\* from the environment
WindowFormatted ==
    /\ Workflow
    /\ QueryAnswered("Selection")
    /\ response.sourceType = "window"
    /\ windowListRead # <<>>
    /\ output # <<>>

\* the table holding the one entry {handleId=7, windowAddr=0x1234}
TableOne == "7[HC>]k[HT>]t[HE>]4660[HA>]"

\* the table {8 at 5}, {7 at 0x1234}, {9 at 0x1234}, in this order
TableThree ==
    "8[HC>]k[HT>]t[HE>]5[HA>]7[HC>]k[HT>]t[HE>]4660[HA>]9[HC>]k[HT>]u[HE>]4660[HA>]"

\* C16: a window selection whose sourceId names address 0x1234, as "0x1234"
\* or as "4660", is formatted as "[SELECTION]/window:7" against a table
\* holding {handleId=7, windowAddr=0x1234}: an entry with another address
\* ahead of it is passed over, and of two entries with the address the
\* first in table order supplies the handle.
C16_WindowResolvedFirstMatch ==
    (/\ WindowFormatted
     /\ StrOf(response.sourceId) \in {"0x1234", "4660"}
     /\ StrOf(windowListRead[1]) \in {TableOne, TableThree}) =>
        StrOf(output) = "[SELECTION]/window:7"

\* "0x1234" was resolved against the table with two entries at the address
\* and the line was written
C16_Witness ==
    /\ WindowFormatted
    /\ StrOf(response.sourceId) = "0x1234"
    /\ StrOf(windowListRead[1]) = TableThree
    /\ StrOf(stdout) = "[SELECTION]/window:7\n"

\* "4660" was resolved against the table with the single entry
C16_WitnessDecimal ==
    /\ WindowFormatted
    /\ StrOf(response.sourceId) = "4660"
    /\ StrOf(windowListRead[1]) = TableOne
    /\ StrOf(stdout) = "[SELECTION]/window:7\n"

\* a window selection has been formatted and no entry of the table read has
\* its address: the table is empty, or the id is "DP-1" (address 0) and the
\* table holds addresses 5 and 0x1234 only
WindowUnmatched ==
    /\ WindowFormatted
    /\ \/ windowListRead[1] = <<>>
       \/ /\ StrOf(response.sourceId) = "DP-1"
          /\ StrOf(windowListRead[1]) \in {TableOne, TableThree}

\* C17 as stated: with no matching entry, the line is "[SELECTION]/window:"
\* followed by the text of sourceId unchanged.
C17_RawAddressVerbatim ==
    WindowUnmatched =>
        StrOf(output) = "[SELECTION]/window:" \o StrOf(response.sourceId)

\* C17: with no matching entry, the line is "[SELECTION]/window:" followed
\* by the address in decimal, as parsed from sourceId: "0x1234" gives 4660,
\* "4660" gives 4660, and text that is not a number gives 0.
C17_RawAddressDecimal ==
    WindowUnmatched =>
        StrOf(output) = "[SELECTION]/window:"
            \o (CASE StrOf(response.sourceId) = "0x1234" -> "4660"
                  [] StrOf(response.sourceId) = "4660"   -> "4660"
                  [] StrOf(response.sourceId) = "DP-1"   -> "0")

\* "0x1234" was formatted against an empty table and the line was written
C17_Witness ==
    /\ WindowUnmatched
    /\ StrOf(response.sourceId) = "0x1234"
    /\ windowListRead[1] = <<>>
    /\ StrOf(stdout) = "[SELECTION]/window:4660\n"

\* positions in sent of the requests of the given type
SentOf(type) == {i \in 1..Len(sent) : sent[i].type = type}

\* C18 as stated: a run opens at most one connection, and a store_token
\* request travels on the connection querySelection() opened.
C18_SingleConnection ==
    /\ Len(connections) <= 1
    /\ \A i \in SentOf("store_token") : connections[sent[i].conn] = "query"

\* C18: each request has a connection of its own. querySelection() opens the
\* first and sends query_selection on it; storeToken() opens a second one,
\* after querySelection() has returned, and sends store_token on that one;
\* a run opens no further connection.
C18_ConnectionPerRequest ==
    /\ connections \in {<<>>, <<"query">>, <<"query", "store">>}
    /\ \A i \in SentOf("query_selection") : sent[i].conn = 1
    /\ \A i \in SentOf("store_token") :
          /\ sent[i].conn = 2
          /\ connections[sent[i].conn] = "store"
    /\ Len(connections) = 2 => QueryReturned

\* store_token went out on a second connection
C18_Witness ==
    /\ connections = <<"query", "store">>
    /\ \E i \in SentOf("store_token") : sent[i].conn = 2
    /\ \E i \in SentOf("query_selection") : sent[i].conn = 1

\* number of connections opened by querySelection ("query") or storeToken
\* ("store")
ConnectionsOf(who) == Cardinality({i \in 1..Len(connections) : connections[i] = who})

\* C19: a run calls querySelection() at most once and storeToken() at most
\* once; each opens at most one connection and sends at most one request,
\* and once either has returned, on a timeout or otherwise, the run is never
\* inside it again.
C19_NoRetry ==
    /\ queryCalls <= 1
    /\ storeCalls <= 1
    /\ ConnectionsOf("query") <= 1
    /\ ConnectionsOf("store") <= 1
    /\ Cardinality(SentOf("query_selection")) <= 1
    /\ Cardinality(SentOf("store_token")) <= 1
    /\ QueryReturned =>
          /\ pc \notin {"query_connect", "query_send", "query_after_read"}
          /\ op # "query"
    /\ StoreReturned =>
          /\ pc \notin {"store_connect", "store_send", "store_after_read"}
          /\ op # "store"

\* a run whose query timed out waiting for the response has ended, with one
\* query attempt
C19_Witness ==
    /\ Terminated
    /\ QueryTransportError
    /\ error = "Timeout waiting for response length: "
    /\ queryCalls = 1
    /\ ConnectionsOf("query") = 1
    /\ fallbackCalls = 1

\* a run whose query could not connect has ended, with one query attempt
C19_WitnessConnect ==
    /\ Terminated
    /\ QueryTransportError
    /\ error = "Failed to connect to service (is it running?): "
    /\ queryCalls = 1
    /\ connections = <<>>

\* a run whose storeToken() timed out waiting for the body has ended, with
\* one attempt of each operation
C19_WitnessStore ==
    /\ Terminated
    /\ StoreReturned
    /\ storeError = "Timeout waiting for response body: "
    /\ storeCalls = 1
    /\ queryCalls = 1
    /\ ConnectionsOf("store") = 1

\* the lowercase hexadecimal digits
LowerHexChars ==
    {"0", "1", "2", "3", "4", "5", "6", "7", "8", "9", "a", "b", "c", "d", "e", "f"}

\* 64 characters, each a lowercase hexadecimal digit
TokenShaped(t) ==
    /\ Len(t) = 64
    /\ \A i \in 1..Len(t) : t[i] \in LowerHexChars

\* the 32 bytes (i * 37 + 171) mod 256, i = 1..32, in lowercase hexadecimal
SampleToken ==
    "d0f51a3f6489aed3f81d42678cb1d6fb"
    \o "20456a8fb4d9fe23486d92b7dc01264b"

\* SampleToken, character by character
SampleTokenText ==
    << "d", "0", "f", "5", "1", "a", "3", "f", "6", "4", "8", "9", "a", "e", "d", "3",
       "f", "8", "1", "d", "4", "2", "6", "7", "8", "c", "b", "1", "d", "6", "f", "b",
       "2", "0", "4", "5", "6", "a", "8", "f", "b", "4", "d", "9", "f", "e", "2", "3",
       "4", "8", "6", "d", "9", "2", "b", "7", "d", "c", "0", "1", "2", "6", "4", "b" >>

\* 64 times the character "0", the token of 32 zero bytes
ZeroTokenText == [i \in 1..64 |-> "0"]

\* C20: a token is generated at most once in a run (dry run included), and
\* only on the answer AlwaysAllow; the token of every store_token request
\* sent is the one runPicker() generated, 64 lowercase hexadecimal
\* characters spelling its 32 bytes.
C20_TransmittedToken ==
    /\ tokensGenerated <= 1
    /\ tokensGenerated = 1 <=> dialogResult = "AlwaysAllow"
    /\ (Workflow /\ tokensGenerated = 0) => token = <<>>
    /\ (Workflow /\ tokensGenerated = 1) =>
          /\ TokenShaped(token)
          /\ token \in {ZeroTokenText, SampleTokenText}
    /\ \A i \in SentOf("store_token") :
          /\ tokensGenerated = 1
          /\ sent[i].token = token
          /\ TokenShaped(sent[i].token)

\* the token of 32 sample bytes was generated and sent in a store_token
\* request
C20_Witness ==
    /\ dialogResult = "AlwaysAllow"
    /\ tokensGenerated = 1
    /\ \E i \in SentOf("store_token") :
          /\ sent[i].token = SampleTokenText
          /\ StrOf(sent[i].token) = SampleToken

\* the text before the first newline of cs (all of cs if it has none)
RECURSIVE FirstLine(_)
FirstLine(cs) ==
    IF cs = <<>> \/ Head(cs) = "\n" THEN <<>> ELSE <<Head(cs)>> \o FirstLine(Tail(cs))

\* the first line of cs that has a character, <<>> if there is none
RECURSIVE FirstNonEmptyLine(_)
FirstNonEmptyLine(cs) ==
    IF cs = <<>> THEN <<>>
    ELSE IF Head(cs) = "\n" THEN FirstNonEmptyLine(Tail(cs))
    ELSE FirstLine(cs)

\* runFallbackPicker() has returned
FallbackReturned == fallbackCalls = 1 /\ Terminated

\* C21 (as claimed): when the delegate could not be started the launcher
\* returns 1 and stdout stays empty; when it ran, stdout holds the first
\* non-empty line of the delegate's stdout and nothing else, and is empty when
\* the delegate printed no such line.
C21_FirstLineForwarded ==
    FallbackReturned =>
        IF ~delegate.started
        THEN exitCode = 1 /\ stdout = <<>>
        ELSE /\ delegate.exitCode # -1
             /\ delegateOut # <<>>
             /\ stdout = IF FirstNonEmptyLine(delegateOut[1]) = <<>> THEN <<>>
                         ELSE FirstNonEmptyLine(delegateOut[1]) \o <<"\n">>

\* the run is a dry run (--dry-run without --help)
DryRun == args.dryRun /\ ~args.showHelp

\* C22: a dry run asks for consent once and does nothing else: no query, no
\* storeToken(), no connection, no request, no fallback, nothing on stdout;
\* it ends with 0 for AlwaysAllow and AllowOnce, with 1 for Denied.
C22_DryRunConsentOnly ==
    DryRun =>
        /\ queryCalls = 0
        /\ ~StoreStarted
        /\ fallbackCalls = 0
        /\ connections = <<>>
        /\ sent = <<>>
        /\ stdout = <<>>
        /\ consentCalls <= 1
        /\ Terminated =>
              /\ consentCalls = 1
              /\ dialogResult \in DialogResults
              /\ exitCode = IF dialogResult \in {"AlwaysAllow", "AllowOnce"} THEN 0 ELSE 1

\* a dry run answered AlwaysAllow has ended with 0
C22_Witness ==
    /\ DryRun
    /\ Terminated
    /\ consentCalls = 1
    /\ dialogResult = "AlwaysAllow"
    /\ exitCode = 0

\* a dry run answered Denied has ended with 1
C22_WitnessDenied ==
    /\ DryRun
    /\ Terminated
    /\ dialogResult = "Denied"
    /\ exitCode = 1

\* one of the two loops of readLengthPrefixedMessage() is running
Reading == pc \in {"read_len", "read_body"}

ReadTimeouts ==
    {"Timeout waiting for response length: ", "Timeout waiting for response body: "}

ReadFailures ==
    {"Failed to read length prefix: ", "Failed to read response body: "}

\* the counters of the read loops stay within what the loop has to collect
ReadWithinBounds ==
    /\ pc = "read_len" =>
          /\ bytesRead <= PrefixLen
          /\ Len(lenBytes) = bytesRead
          /\ consumed = bytesRead
    /\ pc = "read_body" =>
          /\ bytesRead <= BigToInt(len)
          /\ Len(lenBytes) = PrefixLen
          /\ consumed = PrefixLen + bytesRead
    /\ consumed <= arrived
    /\ (ReadReturned /\ data # 0) =>
          /\ data = wire.body
          /\ consumed = PrefixLen + data
    /\ (ReadReturned /\ ReadError \in ReadFailures \cup ReadTimeouts) => data = 0

\* a step taken with bytes buffered is no wait: nothing arrives and no
\* timeout is reported
NoWaitWhenBuffered ==
    (Reading /\ sockAvail > 0) =>
        /\ arrived' = arrived
        /\ ~(ReadReturned' /\ ReadError' \in ReadTimeouts)

\* a step of a loop that still needs bytes and has some buffered takes at
\* least one and at most the missing ones, or ends the whole read empty with
\* a read failure
ReadTakesOrAborts ==
    (Reading /\ sockAvail > 0 /\ bytesRead < Need) =>
        \/ /\ pc' = pc
           /\ bytesRead' > bytesRead
           /\ bytesRead' <= Need
           /\ consumed' - consumed = bytesRead' - bytesRead
        \/ /\ ReadReturned'
           /\ data' = 0
           /\ ReadError' \in ReadFailures
           /\ consumed' = consumed

\* C23: reading N bytes (the prefix, then the body) accumulates over partial
\* reads without ever holding more than N; a read takes no more than the
\* missing bytes; a successful frame read returns exactly the declared
\* number of bytes; the loop waits only with an empty buffer; and a read
\* that returns zero or less ends the frame read with a failure.
C23_ReadLoopDiscipline ==
    /\ []ReadWithinBounds
    /\ [][NoWaitWhenBuffered /\ ReadTakesOrAborts]_vars

\* a 23-byte body was returned after the prefix and the body each came in
\* several pieces
C23_Witness ==
    /\ ReadReturned
    /\ wire.prefix = <<23, 0, 0, 0>>
    /\ data = 23
    /\ arrivals = MaxArrivals
    /\ consumed = 27

\* a read that returned nothing with bytes buffered ended the frame read
C23_WitnessAbort ==
    /\ ReadReturned
    /\ ReadError = "Failed to read response body: "
    /\ sockAvail > 0
    /\ data = 0

\* a body loop is midway, with bytes buffered: the next step is a read
C23_WitnessPartial ==
    /\ pc = "read_body"
    /\ bytesRead > 0
    /\ bytesRead < BigToInt(len)
    /\ sockAvail > 0

\* the read loop in progress is about to wait: it needs bytes and none is
\* buffered
AboutToWait == Reading /\ bytesRead < Need /\ sockAvail = 0

\* every wait has the full limit, whatever time the read has spent waiting
\* before: it ends within the limit with bytes arrived and the read going
\* on, or at the limit with the read failed on a timeout
EachWaitFreshLimit ==
    AboutToWait =>
        \/ /\ arrived' > arrived
           /\ elapsed' - elapsed < ReadTimeoutMs
           /\ pc' = pc
        \/ /\ elapsed' - elapsed = ReadTimeoutMs
           /\ ReadReturned'
           /\ data' = 0
           /\ ReadError' \in ReadTimeouts

\* C24: the 5000 ms limit applies to each wait of a read separately. A wait
\* that sees bytes arrive within 5000 ms succeeds however long the read has
\* waited in total, and a wait that lasts 5000 ms fails the read with a
\* timeout; a read fails on a timeout in no other way.
C24_PerWaitTimeout ==
    /\ [][EachWaitFreshLimit]_vars
    /\ [](ReadReturned /\ data # 0 => ReadError \notin ReadTimeouts)
    /\ [][(ReadReturned' /\ ~ReadReturned /\ ReadError' \in ReadTimeouts)
              => (AboutToWait /\ elapsed' - elapsed = ReadTimeoutMs)]_vars

\* a 23-byte body came in four pieces 4000 ms apart and was returned after
\* 16000 ms of waiting
C24_Witness ==
    /\ ReadReturned
    /\ wire.prefix = <<23, 0, 0, 0>>
    /\ data = 23
    /\ arrivals = 4
    /\ elapsed = 16000

\* a read timed out in its third wait, after two pieces that came in time
C24_WitnessStall ==
    /\ ReadReturned
    /\ data = 0
    /\ ReadError = "Timeout waiting for response body: "
    /\ arrivals = 2
    /\ elapsed = 13000

\* a window-table entry with one-character class and title; id and address
\* as decimal digits
EntryOf(id, class, title, addr) ==
    [handleId |-> id, windowClass |-> <<class>>, title |-> <<title>>, windowAddr |-> addr]

\* TableOne followed by a record cut off after its title
TableTruncated == TableOne \o "8[HC>]k[HT>]t"

\* a record whose id and address are no numbers, followed by TableOne
TableNonNumeric == "x[HC>]k[HT>]t[HE>]zz[HA>]" \o TableOne

\* a record whose address lacks its [HA>] marker, followed by TableOne
TableUnclosedFirst == "9[HC>]k[HT>]t[HE>]5" \o TableOne

\* the entries of the well-formed, truncated and non-numeric tables
EntriesOfTable(text) ==
    CASE text = ""              -> <<>>
      [] text = TableOne        -> <<EntryOf(<<7>>, "k", "t", <<4, 6, 6, 0>>)>>
      [] text = TableThree      -> <<EntryOf(<<8>>, "k", "t", <<5>>),
                                     EntryOf(<<7>>, "k", "t", <<4, 6, 6, 0>>),
                                     EntryOf(<<9>>, "k", "u", <<4, 6, 6, 0>>)>>
      [] text = TableTruncated  -> <<EntryOf(<<7>>, "k", "t", <<4, 6, 6, 0>>)>>
      [] text = TableNonNumeric -> <<EntryOf(<<0>>, "k", "t", <<0>>),
                                     EntryOf(<<7>>, "k", "t", <<4, 6, 6, 0>>)>>

WellDelimitedTables == {"", TableOne, TableThree, TableTruncated, TableNonNumeric}

C25_WitnessNonNumeric ==
    /\ windowsParsed # <<>>
    /\ StrOf(windowListRead[1]) = TableNonNumeric
    /\ Len(windowsParsed[1]) = 2
    /\ windowsParsed[1][1].handleId = <<0>>
    /\ windowsParsed[1][1].windowAddr = <<0>>

\* the table whose first record lacks [HA>] was parsed into one entry
C25_WitnessUnclosed ==
    /\ windowsParsed # <<>>
    /\ StrOf(windowListRead[1]) = TableUnclosedFirst
    /\ Len(windowsParsed[1]) = 1

\* the body querySelection() decoded carries a geometry object
BodyHasGeometry == queryDoc # <<>> /\ queryDoc[1].valid /\ "geometry" \in DOMAIN queryDoc[1].obj

\* C26 as stated: a decoded Selection has geometry exactly when its source
\* type is "region".
C26_GeometryIffRegion ==
    (Workflow /\ QueryAnswered("Selection")) =>
        (response.geometry # <<>> <=> response.sourceType = "region")

\* C26: a decoded Selection has geometry exactly when the body carries a
\* geometry object, whatever its source type, and then with the body's
\* values; the geometry of a monitor or window selection is decoded and left
\* out of the line, which is formatted as without it.
C26_GeometryIffInBody ==
    (Workflow /\ QueryAnswered("Selection")) =>
        /\ response.geometry # <<>> <=> BodyHasGeometry
        /\ BodyHasGeometry =>
              LET g == queryDoc[1].obj["geometry"]
              IN  /\ response.geometry[1].x = g.x
                  /\ response.geometry[1].y = g.y
                  /\ StrOf(BigToChars(response.geometry[1].width)) = ToString(g.width)
                  /\ StrOf(BigToChars(response.geometry[1].height)) = ToString(g.height)
        /\ (response.sourceType = "monitor" /\ output # <<>>) =>
              StrOf(output) = "[SELECTION]/screen:" \o StrOf(response.sourceId)

\* a monitor selection that carries a geometry was decoded and its line
\* written
C26_Witness ==
    /\ Workflow
    /\ QueryAnswered("Selection")
    /\ response.sourceType = "monitor"
    /\ response.geometry # <<>>
    /\ StrOf(stdout) = "[SELECTION]/screen:DP-1\n"

\* a region selection without geometry was decoded
C26_WitnessRegion ==
    /\ Workflow
    /\ QueryAnswered("Selection")
    /\ response.sourceType = "region"
    /\ response.geometry = <<>>

\* the query was answered with a selection that has no approval token and
\* no valid source kind
UnapprovedInvalidKind ==
    /\ Workflow
    /\ QueryAnswered("Selection")
    /\ ~response.hasApprovalToken
    /\ ~ValidKind(response)

\* C27: a selection without approval token and without valid source kind is
\* put to the user before its kind is looked at: formatting is reached only
\* with the answer given, the run ends only after one prompt, with exit code
\* 1, nothing on stdout and storeToken() not started; on AlwaysAllow a token
\* has been generated and is never sent.
C27_ConsentBeforeValidation ==
    UnapprovedInvalidKind =>
        /\ pc = "format" => (consentCalls = 1 /\ dialogResult \in {"AllowOnce", "AlwaysAllow"})
        /\ pc \in {"check_query", "switch", "dialog", "format", "done"}
        /\ Terminated =>
              /\ consentCalls = 1
              /\ dialogResult \in DialogResults
              /\ exitCode = 1
              /\ stdout = <<>>
              /\ ~StoreStarted
              /\ SentOf("store_token") = {}
              /\ dialogResult = "AlwaysAllow" =>
                    /\ tokensGenerated = 1
                    /\ TokenShaped(token)
                    /\ shouldStoreToken

\* a region without geometry was put to the user, answered AlwaysAllow, and
\* the run ended with 1 and an unsent token
C27_Witness ==
    /\ UnapprovedInvalidKind
    /\ response.sourceType = "region"
    /\ Terminated
    /\ consentCalls = 1
    /\ dialogResult = "AlwaysAllow"
    /\ tokensGenerated = 1
    /\ TokenShaped(token)
    /\ exitCode = 1
    /\ sent = <<[type |-> "query_selection", conn |-> 1]>>

\* a selection of unknown source type is being formatted after AllowOnce
C27_WitnessFormat ==
    /\ UnapprovedInvalidKind
    /\ response.sourceType = "screen"
    /\ pc = "format"
    /\ dialogResult = "AllowOnce"

\* the query was answered with a body tagged token_valid, token_invalid,
\* token_stored or ok
TokenAnswer ==
    /\ Workflow
    /\ QueryReturned
    /\ queryDoc # <<>>
    /\ TagOf(queryDoc[1]) \in {"token_valid", "token_invalid", "token_stored", "ok"}

\* C28: a query answered with a token-related response leads straight to
\* the end of the run: no prompt, no fallback, no storeToken(), nothing on
\* stdout, exit code 1.
C28_TokenAnswerExits ==
    TokenAnswer =>
        /\ response.type \in {"TokenValid", "TokenInvalid", "TokenStored"}
        /\ pc \in {"check_query", "switch", "done"}
        /\ consentCalls = 0
        /\ fallbackCalls = 0
        /\ ~StoreStarted
        /\ stdout = <<>>
        /\ Terminated => exitCode = 1

\* a run whose query was answered token_invalid has ended with 1
C28_Witness ==
    /\ TokenAnswer
    /\ TagOf(queryDoc[1]) = "token_invalid"
    /\ Terminated
    /\ exitCode = 1
    /\ fallbackCalls = 0

\* a run whose query was answered ok has ended with 1
C28_WitnessOk ==
    /\ TokenAnswer
    /\ TagOf(queryDoc[1]) = "ok"
    /\ Terminated
    /\ exitCode = 1

\* the frame on the connection declares an empty body and its prefix has been
\* read in full
ZeroFrameRead == wire.prefix = <<0, 0, 0, 0>> /\ consumed = PrefixLen

C29_WitnessStore ==
    /\ ZeroFrameRead
    /\ StoreReturned
    /\ storeOk = "false"
    /\ storeError = ""
    /\ Terminated
    /\ exitCode = 0

\* position of the run in the order of the program's steps; the two read
\* loops are passed once for the query and once for storeToken()
StepRank ==
    CASE pc = "main"             -> 0
      [] pc = "dry_run"          -> 1
      [] pc = "query_connect"    -> 2
      [] pc = "query_send"       -> 3
      [] pc = "read_len"         -> IF op = "query" THEN 4 ELSE 15
      [] pc = "read_body"        -> IF op = "query" THEN 5 ELSE 16
      [] pc = "query_after_read" -> 6
      [] pc = "check_query"      -> 7
      [] pc = "switch"           -> 8
      [] pc = "dialog"           -> 9
      [] pc = "format"           -> 10
      [] pc = "emit"             -> 11
      [] pc = "flush"            -> 12
      [] pc = "store_connect"    -> 13
      [] pc = "store_send"       -> 14
      [] pc = "store_after_read" -> 17
      [] pc = "success"          -> 18
      [] pc = "fallback"         -> 19
      [] pc = "fallback_wait"    -> 20
      [] pc = "done"             -> 21

\* every step moves the run forward in the program, or stays in a read loop
\* with more bytes of the frame arrived or taken
StepsForward ==
    \/ StepRank' > StepRank
    \/ /\ StepRank' = StepRank
       /\ Reading
       /\ arrived' + consumed' > arrived + consumed

\* the run has ended as Success, DeniedExit, FallbackDelegated or HardError
TerminalOutcome == Terminated /\ exitCode \in {0, 1}

\* C30: every run ends, with exit code 0 or 1, given that the prompt is
\* answered and a started delegate finishes; on the way no step leads back:
\* each one moves forward in the program or, inside a read loop, brings the
\* frame nearer to complete.
C30_Terminates ==
    /\ <>TerminalOutcome
    /\ [][StepsForward]_vars

\* a run has ended with 0 after a prompt and a storeToken() whose response
\* came in four pieces
C30_Witness ==
    /\ Workflow
    /\ TerminalOutcome
    /\ consentCalls = 1
    /\ storeOk = "true"
    /\ arrivals = 4
    /\ elapsed = 16000
    /\ exitCode = 0


====
